---- MODULE Spec2Model ----
(***************************************************************************)
(* A model of blender-sm256e: the display-list interpreter of              *)
(* import_bmd.py and the geometry stripper, texel-block palette allocator  *)
(* and texture classifier of util.py.  Each part of the program is a       *)
(* specification of its own (SpecType, SpecDL, SpecTexel, SpecCmap,        *)
(* SpecStrip, SpecBpy, SpecCache, SpecAsm, SpecReduce) over the variables  *)
(* of that part; the variables of the other parts stay at their idle       *)
(* values.  SpecAlloc runs the palette allocator on colour maps of any     *)
(* length and SpecRun runs the stripper on long runs of triangles.         *)
(*                                                                         *)
(* Python lists are modelled as sequences; where the source indexes from   *)
(* 0 the helper At(s, i) reads element i of a sequence counted from 0, so  *)
(* that the index arithmetic of the source is kept as written.             *)
(***************************************************************************)
EXTENDS Integers, Sequences, FiniteSets, TLC

VARIABLES
    \* ---- Texture.calc_type (util.py) ----
    pixels,             \* texture.image.pixels: flat channel list, value = n / PixelDen
    uncompressed,       \* texture.get("Uncompressed")
    rgba5555,           \* self.rgba5555: one <<r, g, b, a>> per pixel, or <<>> before
    tex_type,           \* self.type, 0 before calc_type has run
    transparent_color,  \* self.transparent_color
    type_pc             \* "input" before calc_type, "typed" after

VARIABLES
    \* ---- import_display_list (import_bmd.py) ----
    buf_len,        \* len(bytestr)
    data_ptr,       \* header word 0xc: where the command stream starts
    data_want,      \* header word 8: the command stream's stated length
    n_transforms,   \* header word 0: len(transform_ids)
    data_len,       \* len(data_bytes)
    offset,         \* offset into data_bytes
    cmd_i,          \* opcodes of that word already processed; 4 between words
    p_type,         \* primitive type, None before the first vertex list
    position_set,   \* position is not None
    list_open,      \* vertices is not None: a vertex list has been begun
    vertices,       \* the current vertex list; vertices are numbered in input order
    faces,          \* the faces of the current vertex list
    accum_vertices,
    accum_faces,
    n_read,         \* vertices read so far, over all lists
    dl_status,      \* "run", "done" (returned) or "error" (an exception left the call)
    dl_result,      \* the returned (vertices, faces), None until the call returns
    \* history of the call, kept for the claims
    unknown_seen,   \* an opcode outside the opcode table was processed
    oob_read        \* a read addressed bytes beyond the end of its buffer

VARIABLES
    \* ---- Texel4x4 (util.py): one 4x4 block ----
    colors_in,      \* the 16 pixel colours handed to Texel4x4(colors)
    colors,         \* new_colors of reduce_colors, then self.colors
    reduced,        \* reduced of reduce_colors, then self.palette as a set
    palette_set,    \* self.palette_set
    interp,         \* self.interp
    transparency,   \* self.transparency
    cmap_idxs,      \* len(self.cmap[1]): the indexes the block needs
    cmap_order,     \* self.cmap_order
    palette,        \* self.palette of get_bytestrs: the block's 4 palette entries
    indexes,        \* the 2-bit index of every pixel
    texel_pc        \* "reduce", "built", "encoded", or the exception raised

VARIABLES
    \* ---- Geometry and Geometry.strip (util.py) ----
    geo_faces,      \* self.faces: the vertex list of every face; a vertex is a number
    face_graph,     \* self.face_graph: for every face index the set of connected ones
    unstripped,     \* the face indexes that are in the set unstripped
    unstripped_table, \* the set unstripped as the interpreter keeps it
    tri_strips,
    quad_strips,
    tris,
    quads,
    strip_pc,       \* "graph" before Geometry.__init__, "strip" in the loop, "done"
    \* history of the call, kept for the claims
    iterations      \* per iteration of the main loop: what extend_strip returned

VARIABLES
    \* ---- Texture.from_bpy_texture (util.py) ----
    image_size,     \* texture.image.size
    tex_width,      \* tex.width, NoSize while the attribute is not set
    tex_height,     \* tex.height
    bytestr_calls,  \* how many times tex.calc_bytestr() was called
    bpy_pc          \* "call", "dimension_error" (the exception of line 505), "returned"

VARIABLES
    \* ---- import_texture and the tex_cache of load_ret (import_bmd.py) ----
    tex_names,      \* the name of every texture of the file, by texture id
    pal_names,      \* the name of every palette of the file, by palette id
    tex_cache,      \* tex_cache: a function from keys to texture objects
    n_decoded,      \* Texture.from_bytestr calls so far; objects are numbered by it
    decodes,        \* the key of every from_bytestr call, in order
    slots,          \* the texture put in a material's slot, per call that got that far
    n_calls,        \* import_texture calls so far
    last_call,      \* <<texture_id, palette_id>> of the last call
    cache_pc        \* "load" inside the loop of load_ret, "loaded" after

VARIABLES
    \* ---- BytesWithPtrs.assemble (util.py) ----
    bytestrs,        \* self.bytestrs: per segment [len, byte_align]
    ptrs,            \* self.ptrs: per pointer [src, src_offset, dest, dest_offset, num_bytes]
    indexed_ptrs,
    placed_bytestrs, \* per placed segment [len, position]
    asm_position,    \* position
    resolved,        \* per resolved pointer: the value written and the positions it saw
    asm_pc           \* "index", "place", "resolve", "done"

VARIABLES
    \* ---- Texture.reduce_colors(colors, new_num) as a call of its own (util.py) ----
    rc_colors,      \* colors
    rc_new_num,     \* new_num
    rc_new_colors,  \* new_colors
    rc_reduced,     \* reduced
    rc_merges,      \* history: per iteration of the loop, reduced before it, pair, new_color
    rc_pc           \* "loop", "returned"

typeVars == <<pixels, uncompressed, rgba5555, tex_type, transparent_color, type_pc>>

dlVars == <<buf_len, data_ptr, data_want, n_transforms, data_len, offset,
            cmd_i, p_type, position_set, list_open, vertices, faces, accum_vertices,
            accum_faces, n_read, dl_status, dl_result, unknown_seen, oob_read>>

VARIABLES
    \* ---- the colour map of calc_bytestr_compressed (util.py) ----
    n_texels,       \* len(texels)
    cmap_arr,       \* position -> (cols, idxs); positions of one idxs share one tuple
    texels,         \* the blocks placed so far, in cmap_order order
    shared_palette, \* palette of calc_bytestr_compressed, <<>> before it is built
    cmap_pc         \* "place", "converted", "emitted", or the exception raised

texelVars == <<colors_in, colors, reduced, palette_set, interp, transparency, cmap_idxs,
               cmap_order, palette, indexes, texel_pc>>

cmapVars == <<n_texels, cmap_arr, texels, shared_palette, cmap_pc>>

stripVars == <<geo_faces, face_graph, unstripped, unstripped_table, tri_strips, quad_strips,
               tris, quads, strip_pc, iterations>>

bpyVars == <<image_size, tex_width, tex_height, bytestr_calls, bpy_pc>>
cacheVars ==
    <<tex_names, pal_names, tex_cache, n_decoded, decodes, slots, n_calls, last_call, cache_pc>>
asmVars == <<bytestrs, ptrs, indexed_ptrs, placed_bytestrs, asm_position, resolved, asm_pc>>
reduceVars == <<rc_colors, rc_new_num, rc_new_colors, rc_reduced, rc_merges, rc_pc>>
moreVars == <<bpyVars, cacheVars, asmVars, reduceVars>>
vars == <<typeVars, dlVars, texelVars, cmapVars, stripVars, moreVars>>

\* p_type = None, and the value of a call that has not returned.
NoType == -1
NoResult == <<>>

----------------------------------------------------------------------------
(* Generic helpers *)

\* Element i of a Python list, counted from 0.
At(s, i) == s[i + 1]

Range(s) == {s[i] : i \in 1..Len(s)}

\* F(v), with v evaluated once however often the body of F names it.
Once(v, F(_)) == CHOOSE r \in {F(x) : x \in {v}} : TRUE

Min(S) == CHOOSE x \in S : \A y \in S : x <= y
Max(S) == CHOOSE x \in S : \A y \in S : x >= y

\* All sequences over S of length at most n.
SeqsUpTo(S, n) == UNION {[1..k -> S] : k \in 0..n}

\* int_round_mid_up(num / den): floor(x + 0.5) for the rational x = num / den.
IntRoundMidUp(num, den) == (2 * num + den) \div (2 * den)

----------------------------------------------------------------------------
(* Texture.calc_type *)

\* Texture's format tags.
A3I5 == 1
COLOR_4 == 2
COLOR_16 == 3
COLOR_256 == 4
COMPRESSED == 5
A5I3 == 6
COLOR_DIRECT == 7

\* Image channels are floats in [0, 1]; the model takes them in steps of
\* 1 / PixelDen, which gives every 5-bit value and every half-way point.
PixelDen == 62

\* At most this many pixels follow the colour ramp of an input image.
MaxExtra == 2

\* The numbers of distinct opaque colours an input image starts with: both
\* sides of every threshold calc_type compares against (4, 8, 16, 256).
RampSizes == {0, 1, 2, 3, 4, 5, 7, 8, 9, 15, 16, 17, 255, 256, 257}

\* An opaque pixel of colour number n, as four image channels.
RampPixel(n) == <<2 * (n % 32), 2 * ((n \div 32) % 32), 2 * (n \div 1024), PixelDen>>

\* Pixels that may follow the ramp: the ramp's first colour or a colour that
\* is in no ramp, at an alpha that is 0, 1/62 (rounds to 1), 1/2 (rounds to
\* 16), 61/62 (rounds to 31) or 1.
ExtraAlphas == {0, 1, 31, 61, 62}
ExtraPixels == {<<2 * r, 0, 2 * b, a>> : r \in {0}, b \in {0, 31}, a \in ExtraAlphas}

Flatten4(ps) == [i \in 1..(4 * Len(ps)) |-> ps[((i - 1) \div 4) + 1][((i - 1) % 4) + 1]]

ImageOf(n, extra) == Flatten4([i \in 1..n |-> RampPixel(i - 1)] \o extra)

\* calc_rgba5555: every channel scaled to 0..31, rounding half up.
CalcRgba5555(px) ==
    [i \in 1..(Len(px) \div 4) |->
        [j \in 1..4 |-> IntRoundMidUp(px[4 * (i - 1) + j] * 31, PixelDen)]]

Rgb(c) == <<c[1], c[2], c[3]>>

\* num_colors of calc_type, before the transparent colour is counted.
OpaqueRgbs(img) == {Rgb(img[i]) : i \in {k \in 1..Len(img) : img[k][4] # 0}}

HasTranslucency(img) == \E i \in 1..Len(img) : img[i][4] \notin {0, 31}
HasTransparent(img) == \E i \in 1..Len(img) : img[i][4] = 0

\* OpaqueTypeOf with the 4-colour comparison strict.
OpaqueTypeOf_Below4(num_colors, flag) ==
    IF num_colors < 4 THEN COLOR_4
    ELSE IF ~flag THEN COMPRESSED
    ELSE IF num_colors <= 16 THEN COLOR_16
    ELSE IF num_colors <= 256 THEN COLOR_256
    ELSE COLOR_DIRECT

\* The else branch of calc_type: the format of an image without translucency.
OpaqueTypeOf(num_colors, flag) ==
    IF num_colors <= 4 THEN COLOR_4
    ELSE IF ~flag THEN COMPRESSED
    ELSE IF num_colors <= 16 THEN COLOR_16
    ELSE IF num_colors <= 256 THEN COLOR_256
    ELSE COLOR_DIRECT

\* AlphaTypeOf with the comparison off by one.
AlphaTypeOf_AtLeast8(num_colors) == IF num_colors >= 8 THEN A3I5 ELSE A5I3

AlphaTypeOf(num_colors) == IF num_colors > 8 THEN A3I5 ELSE A5I3

TypeOf(img, flag) ==
    LET num_colors == Cardinality(OpaqueRgbs(img)) IN
    IF HasTranslucency(img) THEN AlphaTypeOf(num_colors)
    ELSE OpaqueTypeOf(num_colors + (IF HasTransparent(img) THEN 1 ELSE 0), flag)

IdleType ==
    /\ pixels = <<>>
    /\ uncompressed = FALSE
    /\ rgba5555 = <<>>
    /\ tex_type = 0
    /\ transparent_color = FALSE
    /\ type_pc = "idle"

InitTypeVars ==
    /\ \E n \in RampSizes, extra \in SeqsUpTo(ExtraPixels, MaxExtra) :
            pixels = ImageOf(n, extra)
    /\ uncompressed \in BOOLEAN
    /\ rgba5555 = <<>>
    /\ tex_type = 0
    /\ transparent_color = FALSE
    /\ type_pc = "input"

\* Texture.calc_type, calc_rgba5555 included.
CalcType ==
    /\ type_pc = "input"
    /\ LET img == CalcRgba5555(pixels) IN
        /\ rgba5555' = img
        /\ tex_type' = TypeOf(img, uncompressed)
        /\ transparent_color' = (~HasTranslucency(img) /\ HasTransparent(img))
    /\ type_pc' = "typed"
    /\ UNCHANGED <<pixels, uncompressed>>

----------------------------------------------------------------------------
(* import_display_list and read_vertex *)

\* The longest command stream of the model, in 4-byte command words.
MaxWords == 9

\* get_n_bytes, to_int, to_uint: a Python slice stops at the end of the
\* buffer, so the bytes read are those of [off, off + n) that exist.
SliceLen(len, off, n) ==
    LET lo == IF off < len THEN off ELSE len
        hi == IF off + n < len THEN off + n ELSE len
    IN hi - lo

\* The opcode table of import_display_list: operand bytes skipped by the
\* opcodes whose operands are not used.
SkipOpcodes128 == {52}
SkipOpcodes64 == {22, 24}
SkipOpcodes48 == {23, 25}
SkipOpcodes36 == {26}
SkipOpcodes12 == {27, 28, 112}
SkipOpcodes8 == {113}
SkipOpcodes4 == {16, 18, 19, 41, 42, 43, 48, 49, 50, 51, 80, 96, 114}
SkipOpcodes0 == {0, 17, 21, 65}
SkipOpcodes == SkipOpcodes128 \cup SkipOpcodes64 \cup SkipOpcodes48 \cup SkipOpcodes36
                \cup SkipOpcodes12 \cup SkipOpcodes8 \cup SkipOpcodes4 \cup SkipOpcodes0

SkipSize(cmd) ==
    IF cmd \in SkipOpcodes128 THEN 128
    ELSE IF cmd \in SkipOpcodes64 THEN 64
    ELSE IF cmd \in SkipOpcodes48 THEN 48
    ELSE IF cmd \in SkipOpcodes36 THEN 36
    ELSE IF cmd \in SkipOpcodes12 THEN 12
    ELSE IF cmd \in SkipOpcodes8 THEN 8
    ELSE IF cmd \in SkipOpcodes4 THEN 4
    ELSE 0

BeginOpcode == 64
RestoreOpcode == 20
AttributeOpcodes == {32, 33, 34}
AbsoluteVertexOpcodes == {35, 36}
RelativeVertexOpcodes == {37, 38, 39, 40}
VertexOpcodes == AbsoluteVertexOpcodes \cup RelativeVertexOpcodes

\* IsKnown that takes every byte for an opcode of the table.
IsKnown_Every(cmd) == TRUE

\* The opcodes some branch of the if-elif chain accepts.
IsKnown(cmd) ==
    cmd \in {BeginOpcode, RestoreOpcode} \cup AttributeOpcodes \cup VertexOpcodes
                \cup SkipOpcodes

\* The byte values the model feeds the interpreter as opcodes: no-op, begin
\* vertex list, matrix restore, colour, the two absolute and one relative
\* vertex opcodes, skips of 4, 8 and 128 bytes, and two bytes that are in no
\* branch of the opcode table.
OpcodeInputs == {0, 64, 20, 32, 35, 36, 37, 16, 113, 52, 1, 255}

\* Opcode cmd_i of the current command word, one of the four bytes of
\* cmds = to_uint_list(data_bytes, offset, 1, 4).  The stream's length and
\* every offset are multiples of 4, so the word lies inside the stream.
CmdChoices == OpcodeInputs

\* vs[-k] of a Python list.
FromEnd(vs, k) == vs[Len(vs) + 1 - k]

\* FaceAddition with the triangle and quad lists cut one vertex late.
FaceAddition_Shifted(pt, vs) ==
    IF pt \in {0, 1} /\ Len(vs) % (pt + 3) = 1 /\ Len(vs) > pt + 3
    THEN << [k \in 1..(pt + 3) |-> FromEnd(vs, pt + 4 - k)] >>
    ELSE IF pt = 2 /\ Len(vs) >= 3
    THEN << IF Len(vs) % 2 = 0
            THEN <<FromEnd(vs, 2), FromEnd(vs, 3), FromEnd(vs, 1)>>
            ELSE <<FromEnd(vs, 3), FromEnd(vs, 2), FromEnd(vs, 1)>> >>
    ELSE IF pt = 3 /\ Len(vs) % 2 = 0 /\ Len(vs) >= 4
    THEN << <<FromEnd(vs, 4), FromEnd(vs, 3), FromEnd(vs, 1), FromEnd(vs, 2)>> >>
    ELSE <<>>

\* "Face addition" of read_vertex: the faces (none or one) that the vertex
\* just appended to vs completes under primitive type pt.
FaceAddition(pt, vs) ==
    IF pt \in {0, 1} /\ Len(vs) % (pt + 3) = 0
    THEN << [k \in 1..(pt + 3) |-> FromEnd(vs, pt + 4 - k)] >>
    ELSE IF pt = 2 /\ Len(vs) >= 3
    THEN << IF Len(vs) % 2 = 0
            THEN <<FromEnd(vs, 2), FromEnd(vs, 3), FromEnd(vs, 1)>>
            ELSE <<FromEnd(vs, 3), FromEnd(vs, 2), FromEnd(vs, 1)>> >>
    ELSE IF pt = 3 /\ Len(vs) % 2 = 0 /\ Len(vs) >= 4
    THEN << <<FromEnd(vs, 4), FromEnd(vs, 3), FromEnd(vs, 1), FromEnd(vs, 2)>> >>
    ELSE <<>>

IdleDL ==
    /\ buf_len = 0 /\ data_ptr = 0 /\ data_want = 0 /\ n_transforms = 0
    /\ data_len = 0 /\ offset = 0 /\ cmd_i = 4
    /\ p_type = NoType /\ position_set = FALSE
    /\ list_open = FALSE /\ vertices = <<>> /\ faces = <<>>
    /\ accum_vertices = <<>> /\ accum_faces = <<>>
    /\ n_read = 0
    /\ dl_status = "idle" /\ dl_result = NoResult
    /\ unknown_seen = FALSE /\ oob_read = FALSE

\* Where the header may say the command stream starts and how long it is.
BufLen == 4 * MaxWords
DataPtrs == {0, 4, BufLen + 4}
DataWants == {BufLen - 8, BufLen, BufLen + 4}

\* import_display_list up to its loop: the header words are taken as read,
\* data_bytes is cut out of a buffer of MaxWords words.
InitDLVars ==
    /\ buf_len = BufLen
    /\ data_ptr \in DataPtrs
    /\ data_want \in DataWants
    /\ n_transforms = 1
    /\ data_len = SliceLen(buf_len, data_ptr, data_want)
    /\ offset = 0 /\ cmd_i = 4
    /\ p_type = NoType /\ position_set = FALSE
    /\ list_open = FALSE /\ vertices = <<>> /\ faces = <<>>
    /\ accum_vertices = <<>> /\ accum_faces = <<>>
    /\ n_read = 0
    /\ dl_status = "run" /\ dl_result = NoResult
    /\ unknown_seen = FALSE
    /\ oob_read = (data_ptr + data_want > buf_len)

\* An operand of n bytes read at the current offset reaches past the stream.
OperandPastEnd(n) == offset + n > data_len

DLKeep == UNCHANGED <<buf_len, data_ptr, data_want, n_transforms, data_len>>

\* An exception leaves import_display_list: nothing is returned.
Raise ==
    /\ dl_status' = "error"
    /\ UNCHANGED <<offset, p_type, position_set, list_open, vertices, faces,
                   accum_vertices, accum_faces, n_read, dl_result>>

\* while offset < len(data_bytes): read the next command word.
FetchWord ==
    /\ dl_status = "run" /\ cmd_i = 4
    /\ offset < data_len
    /\ offset' = offset + 4
    /\ cmd_i' = 0
    /\ DLKeep
    /\ UNCHANGED <<p_type, position_set, list_open, vertices, faces, accum_vertices, accum_faces,
                   n_read, dl_status, dl_result, unknown_seen, oob_read>>

\* BeginVertexList without the reset of the vertex list.
BeginVertexList_KeepsVertices ==
    /\ dl_status = "run" /\ cmd_i < 4
    /\ \E cmd \in CmdChoices : cmd = BeginOpcode
    /\ \E operand \in (IF OperandPastEnd(1) THEN {0} ELSE 0..3) :
            p_type' = operand % 4
    /\ IF list_open
       THEN /\ accum_vertices' = accum_vertices \o vertices
            /\ accum_faces' = accum_faces \o faces
       ELSE UNCHANGED <<accum_vertices, accum_faces>>
    /\ list_open' = TRUE
    /\ vertices' = vertices
    /\ faces' = <<>>
    /\ offset' = offset + 4
    /\ cmd_i' = cmd_i + 1
    /\ oob_read' = (oob_read \/ OperandPastEnd(1))
    /\ DLKeep
    /\ UNCHANGED <<position_set, n_read, dl_status, dl_result, unknown_seen>>

\* cmd == 0x40: begin vertex list.
BeginVertexList ==
    /\ dl_status = "run" /\ cmd_i < 4
    /\ \E cmd \in CmdChoices : cmd = BeginOpcode
    /\ \E operand \in (IF OperandPastEnd(1) THEN {0} ELSE 0..3) :
            p_type' = operand % 4
    /\ IF list_open
       THEN /\ accum_vertices' = accum_vertices \o vertices
            /\ accum_faces' = accum_faces \o faces
       ELSE UNCHANGED <<accum_vertices, accum_faces>>
    /\ list_open' = TRUE
    /\ vertices' = <<>>
    /\ faces' = <<>>
    /\ offset' = offset + 4
    /\ cmd_i' = cmd_i + 1
    /\ oob_read' = (oob_read \/ OperandPastEnd(1))
    /\ DLKeep
    /\ UNCHANGED <<position_set, n_read, dl_status, dl_result, unknown_seen>>

\* cmd == 0x14: matrix restore.  transform_ids[transform_id] raises
\* IndexError when the id is not below len(transform_ids).
MatrixRestore ==
    /\ dl_status = "run" /\ cmd_i < 4
    /\ \E cmd \in CmdChoices : cmd = RestoreOpcode
    /\ \E transform_id \in (IF OperandPastEnd(1) THEN {0} ELSE {0, 1}) :
            IF transform_id < n_transforms
            THEN /\ offset' = offset + 4
                 /\ UNCHANGED dl_status
            ELSE /\ dl_status' = "error"
                 /\ UNCHANGED offset
    /\ cmd_i' = cmd_i + 1
    /\ oob_read' = (oob_read \/ OperandPastEnd(4))
    /\ DLKeep
    /\ UNCHANGED <<p_type, position_set, list_open, vertices, faces, accum_vertices,
                   accum_faces, n_read, dl_result, unknown_seen>>

\* cmd in 0x20, 0x21, 0x22: colour, normal, texture coordinates.
SetAttribute ==
    /\ dl_status = "run" /\ cmd_i < 4
    /\ \E cmd \in CmdChoices : cmd \in AttributeOpcodes
    /\ offset' = offset + 4
    /\ cmd_i' = cmd_i + 1
    /\ oob_read' = (oob_read \/ OperandPastEnd(2))
    /\ DLKeep
    /\ UNCHANGED <<p_type, position_set, list_open, vertices, faces, accum_vertices,
                   accum_faces, n_read, dl_status, dl_result, unknown_seen>>

\* cmd in 0x23 .. 0x28: read_vertex.  position.copy() of a relative opcode
\* and ref_vertices.append raise AttributeError on None.
ReadVertex ==
    /\ dl_status = "run" /\ cmd_i < 4
    /\ \E cmd \in CmdChoices :
        /\ cmd \in VertexOpcodes
        /\ IF (cmd \in RelativeVertexOpcodes /\ ~position_set) \/ ~list_open
           THEN /\ dl_status' = "error"
                /\ UNCHANGED <<offset, position_set, vertices, faces, n_read>>
           ELSE /\ vertices' = Append(vertices, n_read + 1)
                /\ faces' = faces \o FaceAddition(p_type, Append(vertices, n_read + 1))
                /\ n_read' = n_read + 1
                /\ position_set' = TRUE
                /\ offset' = offset + (IF cmd = 35 THEN 8 ELSE 4)
                /\ UNCHANGED dl_status
        /\ oob_read' = (oob_read \/ OperandPastEnd(IF cmd = 35 THEN 6 ELSE 4))
    /\ cmd_i' = cmd_i + 1
    /\ DLKeep
    /\ UNCHANGED <<p_type, list_open, accum_vertices, accum_faces, dl_result,
                   unknown_seen>>

\* The opcodes whose operands are skipped unread, and the no-ops.
SkipOperands ==
    /\ dl_status = "run" /\ cmd_i < 4
    /\ \E cmd \in CmdChoices :
        /\ IsKnown(cmd)
        /\ cmd \notin {BeginOpcode, RestoreOpcode} \cup AttributeOpcodes \cup VertexOpcodes
        /\ offset' = offset + SkipSize(cmd)
        /\ unknown_seen' = (unknown_seen \/ cmd \notin SkipOpcodes)
    /\ cmd_i' = cmd_i + 1
    /\ DLKeep
    /\ UNCHANGED <<p_type, position_set, list_open, vertices, faces, accum_vertices,
                   accum_faces, n_read, dl_status, dl_result, oob_read>>

\* else: raise Exception("Unknown GX command ...").
UnknownCommand ==
    /\ dl_status = "run" /\ cmd_i < 4
    /\ \E cmd \in CmdChoices : ~IsKnown(cmd)
    /\ unknown_seen' = TRUE
    /\ cmd_i' = cmd_i + 1
    /\ Raise
    /\ DLKeep
    /\ UNCHANGED oob_read

\* The loop ends: the last vertex list is added and the lists are returned.
ReturnLists ==
    /\ dl_status = "run" /\ cmd_i = 4
    /\ ~(offset < data_len)
    /\ LET vs == IF list_open THEN accum_vertices \o vertices ELSE accum_vertices
           fs == IF list_open THEN accum_faces \o faces ELSE accum_faces
       IN /\ accum_vertices' = vs
          /\ accum_faces' = fs
          /\ dl_result' = <<vs, fs>>
    /\ dl_status' = "done"
    /\ DLKeep
    /\ UNCHANGED <<offset, cmd_i, p_type, position_set, list_open, vertices, faces,
                   n_read, unknown_seen, oob_read>>

----------------------------------------------------------------------------
(* Texel4x4.__init__, Texture.reduce_colors and Texel4x4.get_bytestrs *)

\* The number of colours a block is reduced to.
BlockColors == 4

\* The colour every fully transparent pixel is replaced by.
TransparentColor == <<0, 0, 0, 0>>

\* The palette entry convert_to_palette writes into an unused slot.
FillerColor == <<0, 0, 0, 31>>

\* c if c[3] != 0 else (0, 0, 0, 0)
Normalise(c) == IF c[4] = 0 THEN TransparentColor ELSE c

\* tuple((c0 + c1) // 2 ...)
Mid(c0, c1) == [k \in 1..4 |-> (c0[k] + c1[k]) \div 2]

\* tuple((c0 * 5 + c1 * 3) // 8 ...); the other blend is Blend53(c1, c0).
Blend53(c0, c1) == [k \in 1..4 |-> (c0[k] * 5 + c1[k] * 3) \div 8]

\* permutations(S), as sequences.
Perms(S) ==
    {p \in [1..Cardinality(S) -> S] : \A i, j \in 1..Cardinality(S) : p[i] = p[j] => i = j}

\* The permutations of the palette for which __init__ sets interp.
MidPerms(S) == {p \in Perms(S) : Len(p) = 3 /\ p[3] = Mid(p[1], p[2])}
BlendPerms(S) ==
    {p \in Perms(S) :
        Len(p) = 4 /\ p[3] = Blend53(p[1], p[2]) /\ p[4] = Blend53(p[2], p[1])}

\* colors.count(c)
Count(cs, c) == Cardinality({i \in 1..Len(cs) : cs[i] = c})

SqDist(a, b) ==
    (a[1] - b[1]) * (a[1] - b[1]) + (a[2] - b[2]) * (a[2] - b[2])
        + (a[3] - b[3]) * (a[3] - b[3]) + (a[4] - b[4]) * (a[4] - b[4])

\* The sort key without its first component: the squared distance alone.
MergeKeyLess_DistanceOnly(p, q) == SqDist(p[1], p[2]) < SqDist(q[1], q[2])

\* The sort key of reduce_colors: a pair of one transparent and one opaque
\* colour sorts after every other pair, then the squared distance decides.
MergeKeyLess(p, q) ==
    LET mixed(x) == (x[1][4] = 0) # (x[2][4] = 0)
    IN \/ ~mixed(p) /\ mixed(q)
       \/ mixed(p) = mixed(q) /\ SqDist(p[1], p[2]) < SqDist(q[1], q[2])

\* The pairs sorted(...)[0] can be: those of least key.  Which of them comes
\* first depends on the iteration order of the set.
MergePairs(red) ==
    LET pairs == {p \in red \X red : p[1] # p[2]}
    IN {p \in pairs : \A q \in pairs : ~MergeKeyLess(q, p)}

\* max(pair, key=count): the first of the pair unless the second is more
\* common in the original colours.
KeptColor(orig, pair) ==
    IF Count(orig, pair[2]) > Count(orig, pair[1]) THEN pair[2] ELSE pair[1]

\* The cmap index count and the cmap_order of a block.
CmapIdxs(ps, ip, tr) ==
    IF Cardinality(ps) < 2 \/ ip THEN 2 ELSE IF tr THEN 3 ELSE 4

CmapOrder(ps, ip, tr) ==
    LET n == Cardinality(ps)
    IN IF n = 4 THEN 0
       ELSE IF n = 3 /\ tr THEN 1
       ELSE IF n = 3 THEN 2
       ELSE IF n = 2 /\ ip THEN 3
       ELSE IF n = 2 /\ tr THEN 4
       ELSE IF n = 2 THEN 5
       ELSE IF n = 1 THEN 6
       ELSE 7

\* palette[self.index : self.index + 4] padded with None, then the entries
\* get_bytestrs synthesizes: the transparent colour in entry 3, the midpoint
\* in entry 2, or the two 5:3 blends in entries 2 and 3.
NoColor == <<>>

\* SynthPalette with the two blends in each other's entry.
SynthPalette_Swapped(pal, ip, tr) ==
    LET p1 == IF tr THEN [pal EXCEPT ![4] = TransparentColor] ELSE pal
    IN IF ~ip THEN p1
       ELSE IF tr THEN [p1 EXCEPT ![3] = Mid(p1[1], p1[2])]
       ELSE [p1 EXCEPT ![3] = Blend53(p1[2], p1[1]), ![4] = Blend53(p1[1], p1[2])]

SynthPalette(pal, ip, tr) ==
    LET p1 == IF tr THEN [pal EXCEPT ![4] = TransparentColor] ELSE pal
    IN IF ~ip THEN p1
       ELSE IF tr THEN [p1 EXCEPT ![3] = Mid(p1[1], p1[2])]
       ELSE [p1 EXCEPT ![3] = Blend53(p1[1], p1[2]), ![4] = Blend53(p1[2], p1[1])]

\* palette.index(c), counted from 0.
IndexOf(pal, c) == Min({k \in 1..Len(pal) : pal[k] = c}) - 1

\* Texture.get_indexes
GetIndexes(cs, pal) == [i \in 1..Len(cs) |-> IndexOf(pal, cs[i])]

\* The pixel colours of the blocks the model builds: 5 source colours laid
\* out over the 16 pixels.  The sources are two endpoints with their 5:3
\* blends, with their midpoint and a transparent pixel, with unrelated
\* colours, or with a fifth colour that forces a merge.
PixelsPerBlock == 16
ChannelValues == {0, 3, 8, 31}
EndpointColors == {<<r, g, 0, 31>> : r \in ChannelValues, g \in {0, 8}}
TransparentIn == <<8, 0, 0, 0>>
FarColor == <<31, 31, 31, 31>>
NearFarColor == <<30, 31, 31, 31>>

Sources ==
    UNION {{ <<c0, c1, Blend53(c0, c1), Blend53(c1, c0), c0>>,
             <<c0, c1, Mid(c0, c1), TransparentIn, c1>>,
             <<c0, c1, FarColor, TransparentIn, NearFarColor>>,
             <<c0, c1, Blend53(c0, c1), Blend53(c1, c0), FarColor>> } :
           c0 \in EndpointColors, c1 \in EndpointColors}

Layouts ==
    {[i \in 1..PixelsPerBlock |-> ((i - 1) % k) + 1] : k \in 1..5}
        \cup {[i \in 1..PixelsPerBlock |-> IF i <= 12 THEN 1 ELSE i - 11],
              [i \in 1..PixelsPerBlock |-> 5 - ((i - 1) % 4)]}

IdleTexel ==
    /\ colors_in = <<>> /\ colors = <<>> /\ reduced = {}
    /\ palette_set = {} /\ interp = FALSE /\ transparency = FALSE
    /\ cmap_idxs = 0 /\ cmap_order = 0
    /\ palette = <<>> /\ indexes = <<>>
    /\ texel_pc = "idle"

\* Texel4x4(colors) on entry to reduce_colors: transparent pixels normalised,
\* reduced = set(colors), new_colors = colors[:].
InitTexelVars ==
    /\ \E src \in Sources, lay \in Layouts :
            colors_in = [i \in 1..PixelsPerBlock |-> src[lay[i]]]
    /\ colors = [i \in 1..PixelsPerBlock |-> Normalise(colors_in[i])]
    /\ reduced = Range(colors)
    /\ palette_set = {} /\ interp = FALSE /\ transparency = FALSE
    /\ cmap_idxs = 0 /\ cmap_order = 0
    /\ palette = <<>> /\ indexes = <<>>
    /\ texel_pc = "reduce"

\* One iteration of the while loop of reduce_colors.
ReduceMerge ==
    /\ texel_pc = "reduce"
    /\ Cardinality(reduced) > BlockColors
    /\ \E pair \in MergePairs(reduced) :
        LET orig == [i \in 1..Len(colors_in) |-> Normalise(colors_in[i])]
            new_color == KeptColor(orig, pair)
        IN /\ reduced' = (reduced \ {pair[1], pair[2]}) \cup {new_color}
           /\ colors' = [i \in 1..Len(colors) |->
                            IF colors[i] \in {pair[1], pair[2]} THEN new_color ELSE colors[i]]
    /\ UNCHANGED <<colors_in, palette_set, interp, transparency, cmap_idxs, cmap_order,
                   palette, indexes, texel_pc>>

\* The rest of Texel4x4.__init__ once reduce_colors has returned.  The loop
\* over permutations(self.palette_set) leaves the endpoints of the last
\* permutation that matched; the order of the permutations is the iteration
\* order of a set.
TexelBuild ==
    /\ texel_pc = "reduce"
    /\ Cardinality(reduced) <= BlockColors
    /\ LET tr0 == \E i \in 1..Len(colors) : colors[i][4] = 0
           ps0 == {c \in reduced : c[4] # 0}
           matches == MidPerms(ps0) \cup BlendPerms(ps0)
       IN IF matches = {}
          THEN /\ palette_set' = ps0
               /\ interp' = FALSE
               /\ transparency' = tr0
               /\ texel_pc' = "built"
          ELSE \E perm \in matches :
               /\ palette_set' = {perm[1], perm[2]}
               /\ interp' = TRUE
               /\ transparency' = (Len(perm) = 3 \/ tr0)
               /\ texel_pc' = IF Len(perm) = 4 /\ tr0 THEN "AssertionError" ELSE "built"
    /\ cmap_idxs' = CmapIdxs(palette_set', interp', transparency')
    /\ cmap_order' = CmapOrder(palette_set', interp', transparency')
    /\ UNCHANGED <<colors_in, colors, reduced, palette, indexes>>

\* The ways the shared palette can hold the block's colours in the block's
\* own indexes: every colour of palette_set in one of them, the filler in
\* the others.
SlotFills ==
    {f \in [1..cmap_idxs -> palette_set \cup {FillerColor}] :
        /\ \A c \in palette_set : \E k \in 1..cmap_idxs : f[k] = c
        /\ \A j, k \in 1..cmap_idxs : (f[j] = f[k] /\ f[j] \in palette_set) => j = k}

\* What palette[self.index : self.index + 4], padded with None, can be: the
\* block's colours in the block's indexes followed by entries of other blocks
\* or by nothing, or nothing at all when the palette ends before self.index.
BlockPalettes ==
    {[k \in 1..4 |-> IF k <= cmap_idxs THEN f[k] ELSE rest] :
        f \in SlotFills, rest \in {NoColor, FarColor}}
        \cup {[k \in 1..4 |-> NoColor]}

\* Texel4x4.get_bytestrs.  zip(*self.palette[0:2]) raises TypeError on a None
\* entry, palette.index(c) raises ValueError on a colour that is not there.
TexelEncode ==
    /\ texel_pc = "built"
    /\ \E pal \in BlockPalettes :
        IF interp /\ NoColor \in {pal[1], pal[2]}
        THEN /\ palette' = (IF transparency THEN [pal EXCEPT ![4] = TransparentColor] ELSE pal)
             /\ indexes' = <<>>
             /\ texel_pc' = "TypeError"
        ELSE LET synth == SynthPalette(pal, interp, transparency)
             IN /\ palette' = synth
                /\ IF \A i \in 1..Len(colors) : colors[i] \in Range(synth)
                   THEN /\ indexes' = GetIndexes(colors, synth)
                        /\ texel_pc' = "encoded"
                   ELSE /\ indexes' = <<>>
                        /\ texel_pc' = "ValueError"
    /\ UNCHANGED <<colors_in, colors, reduced, palette_set, interp, transparency, cmap_idxs,
                   cmap_order>>

----------------------------------------------------------------------------
(* The palette allocator: Texel4x4.add_color_map, try_add_color_map_at,   *)
(* get_color_map_partition, convert_to_palette, and the loop of           *)
(* calc_bytestr_compressed that drives them.  Colours are numbered; None  *)
(* is NoneColor.  Positions of the colour map count from 0.               *)

\* The most blocks of an image of the model.
MaxTexels == 2

NoneColor == 0
NoIndex == -1

Card(S) == Cardinality(S)

\* get_color_map_partition: the groups met from begin up to end, each with
\* the positions it holds in between.  cmap_arr[begin] raises IndexError when
\* begin is past the last position.
RECURSIVE PartitionRaises(_, _, _)
PartitionRaises(arr, begin, end) ==
    /\ begin < end
    /\ \/ begin \notin DOMAIN arr
       \/ PartitionRaises(arr, 1 + Max({n \in arr[begin].idxs : begin <= n /\ n < end}), end)

RECURSIVE GetColorMapPartition(_, _, _)
GetColorMapPartition(arr, begin, end) ==
    IF ~(begin < end) THEN <<>>
    ELSE LET s == {n \in arr[begin].idxs : begin <= n /\ n < end}
         IN <<[at |-> begin, s |-> s]>> \o GetColorMapPartition(arr, 1 + Max(s), end)

\* The list permutations() is given: the colours in the order lst, then None
\* up to k entries; a permutation is the sequence of the entries' places.
Entry(lst, j) == IF j <= Len(lst) THEN lst[j] ELSE NoneColor

PlacePermsUpTo4 ==
    [k \in 1..4 |-> {q \in [1..k -> 1..k] : \A i, j \in 1..k : q[i] = q[j] => i = j}]
PlacePerms(k) == PlacePermsUpTo4[k]

\* permutations() yields in lexicographic order of places.
LexLess(q1, q2) ==
    \E i \in 1..Len(q1) :
        /\ q1[i] < q2[i]
        /\ \A j \in 1..(i - 1) : q1[j] = q2[j]

\* Entries taken before part j.
RECURSIVE PartStart(_, _)
PartStart(partition, j) ==
    IF j = 1 THEN 0 ELSE PartStart(partition, j - 1) + Card(partition[j - 1].s)

\* part_perm of one permutation: the colours that fall to part j.
PartPerm(partition, lst, q, j) ==
    {Entry(lst, q[m]) :
        m \in {x \in 1..Len(q) : PartStart(partition, j) < x
                                /\ x <= PartStart(partition, j) + Card(partition[j].s)}}
        \ {NoneColor}

\* Feasible that asks for a free index more than the colours need.
Feasible_Strict(arr, partition, lst, q) ==
    \A j \in 1..Len(partition) :
        LET g == arr[partition[j].at]
        IN Card(PartPerm(partition, lst, q, j) \ g.cols) < Card(g.idxs) - Card(g.cols)

\* "Attempt to add the permutation": every group has room for the colours
\* that are new to it.
Feasible(arr, partition, lst, q) ==
    \A j \in 1..Len(partition) :
        LET g == arr[partition[j].at]
        IN Card(PartPerm(partition, lst, q, j) \ g.cols) <= Card(g.idxs) - Card(g.cols)

\* The first permutation that can be added, as a set of none or one.
FirstPerm(arr, partition, lst, k) ==
    LET ok == {q \in PlacePerms(k) : Feasible(arr, partition, lst, q)}
    IN {q \in ok : \A q2 \in ok : ~LexLess(q2, q)}

\* One round of "Add the permutation": the group at position at gives up the
\* positions s_idxs, which become a group of their own holding new_cols and
\* the colours the shrunk group has no index left for.  Which colours are
\* dragged is the iteration order of a set.  Every position that shares the
\* old group's tuple sees it changed.
AddPart(arr, at, s_idxs, new_cols) ==
    LET idxs == arr[at].idxs \ s_idxs
        cols == arr[at].cols \ new_cols
        n_dragged == IF Card(cols) - Card(idxs) > 0 THEN Card(cols) - Card(idxs) ELSE 0
    IN {[n \in DOMAIN arr |->
            IF n \in s_idxs THEN [cols |-> new_cols \cup dragged, idxs |-> s_idxs]
            ELSE IF n \in idxs THEN [cols |-> cols \ dragged, idxs |-> idxs]
            ELSE arr[n]] :
        dragged \in {d \in SUBSET cols : Card(d) = n_dragged}}

RECURSIVE AddParts(_, _, _, _, _)
AddParts(arrs, partition, lst, q, j) ==
    IF j > Len(partition) THEN arrs
    ELSE AddParts(UNION {AddPart(a, partition[j].at, partition[j].s,
                                 PartPerm(partition, lst, q, j)) : a \in arrs},
                  partition, lst, q, j + 1)

\* try_add_color_map_at: the colour maps it can leave, none when it returns
\* None.  new_cmap is (set(lst), range(k)).
TryAddColorMapAt(arr, lst, k, i) ==
    LET partition == GetColorMapPartition(arr, i, i + k)
    IN UNION {AddParts({arr}, partition, lst, q, 1) : q \in FirstPerm(arr, partition, lst, k)}

\* The colours of the blocks are numbered from 1 in the order in which the
\* blocks bring them in; the filler of an unused palette entry is a colour of
\* no block.
BlockColorIds == 1..(4 * MaxTexels)
FillerId == 4 * MaxTexels + 1

\* What Texel4x4.__init__ can leave in (len(palette_set), interp,
\* transparency): interp goes with two endpoints, four colours leave no room
\* for a transparent one, and a block without colours is all transparent.
TexelShapes ==
    {sh \in [n : 0..BlockColors, ip : BOOLEAN, tr : BOOLEAN] :
        /\ sh.ip => sh.n = 2
        /\ sh.n = BlockColors => ~sh.tr
        /\ sh.n = 0 => sh.tr}

UsedColors == UNION {texels[j].cols : j \in 1..Len(texels)}

\* The palette_sets of n colours the next block can have: colours seen
\* before and the next unseen ones.
NextPaletteSets(n) ==
    {old \cup ((Card(UsedColors) + 1)..(Card(UsedColors) + n - Card(old))) :
        old \in {o \in SUBSET UsedColors : Card(o) <= n}}

IdleCmap ==
    /\ n_texels = 0 /\ cmap_arr = <<>> /\ texels = <<>> /\ shared_palette = <<>>
    /\ cmap_pc = "idle"

\* calc_bytestr_compressed before its placing loop: every position of the
\* colour map shares the one tuple (set(), set(range(4 * len(texels)))).
InitCmapVars ==
    /\ n_texels \in 1..MaxTexels
    /\ cmap_arr = [n \in 0..(4 * n_texels - 1) |->
                        [cols |-> {}, idxs |-> 0..(4 * n_texels - 1)]]
    /\ texels = <<>>
    /\ shared_palette = <<>>
    /\ cmap_pc = "place"

\* The longest colour map a caller of add_color_map hands over.
MaxMapLen == 6

\* add_color_map as a function of its arguments: cmap_arr is any array of
\* mappings whose indexes are the positions of the array, here a fresh one of
\* an even length that need not be 4 per block.
InitAllocVars ==
    /\ n_texels \in 1..MaxTexels
    /\ \E len \in {n \in 2..MaxMapLen : n % 2 = 0} :
            cmap_arr = [n \in 0..(len - 1) |-> [cols |-> {}, idxs |-> 0..(len - 1)]]
    /\ texels = <<>>
    /\ shared_palette = <<>>
    /\ cmap_pc = "place"

\* range(0, len(cmap_arr), 2)
SlotStarts(arr) == {i \in DOMAIN arr : i % 2 = 0}

\* The positions at which the scan of add_color_map can stop: those where
\* the partition raises or some permutation can be added.  The scan stops at
\* the first of them.
ScanStops(arr, lst, k) ==
    {i \in SlotStarts(arr) :
        \/ PartitionRaises(arr, i, i + k)
        \/ \E q \in PlacePerms(k) : Feasible(arr, GetColorMapPartition(arr, i, i + k), lst, q)}

\* texel.add_to_color_map(cmap_arr) for the next texel of
\* sorted(texels, key=cmap_order).  list(new_cmap[0]) is the block's colours
\* in the iteration order of a set; where the scan stops does not depend on
\* that order, which permutation is added does.
AddToColorMap ==
    /\ cmap_pc = "place"
    /\ Len(texels) < n_texels
    /\ \E sh \in TexelShapes :
        /\ texels # <<>> =>
                texels[Len(texels)].order <= CmapOrder(1..sh.n, sh.ip, sh.tr)
        /\ \E ps \in NextPaletteSets(sh.n) :
            LET k == CmapIdxs(ps, sh.ip, sh.tr)
                stops == ScanStops(cmap_arr, CHOOSE lst \in Perms(ps) : TRUE, k)
                texel(i) == [cols |-> ps, k |-> k, order |-> CmapOrder(ps, sh.ip, sh.tr),
                             ip |-> sh.ip, tr |-> sh.tr, index |-> i]
            IN IF stops = {}
               THEN /\ texels' = Append(texels, texel(NoIndex))
                    /\ UNCHANGED <<cmap_arr, cmap_pc>>
               ELSE IF PartitionRaises(cmap_arr, Min(stops), Min(stops) + k)
               THEN /\ cmap_pc' = "IndexError"
                    /\ UNCHANGED <<cmap_arr, texels>>
               ELSE /\ \E lst \in Perms(ps) :
                            cmap_arr' \in TryAddColorMapAt(cmap_arr, lst, k, Min(stops))
                    /\ texels' = Append(texels, texel(Min(stops)))
                    /\ UNCHANGED cmap_pc
    /\ UNCHANGED <<n_texels, shared_palette>>

\* The loop of convert_to_palette from position i on: every (colour map,
\* palette) pair it can end with.  next(iter(cols)) is any colour of cols.
RECURSIVE ConvertFrom(_, _)
ConvertFrom(outs, i) ==
    IF outs = {} \/ \A o \in outs : i \notin DOMAIN o[1] THEN outs
    ELSE ConvertFrom(
            UNION {IF o[1][i].cols = {}
                   THEN {<<o[1], Append(o[2], NoneColor)>>}
                   ELSE UNION {LET after == TryAddColorMapAt(o[1], <<c>>, 1, i)
                               IN {<<a, Append(o[2], c)>> :
                                        a \in IF after = {} THEN {o[1]} ELSE after} :
                               c \in o[1][i].cols} :
                   o \in outs},
            i + 1)

\* len(list(takewhile(lambda c: c is None, reversed(palette))))
NumNones(pal) ==
    Card({n \in 1..Len(pal) : \A m \in n..Len(pal) : pal[m] = NoneColor})

\* palette[:-num_nones] with None replaced: -0 is 0, so the slice is empty
\* when no None trails.
CutPalette(pal) ==
    LET kept == IF NumNones(pal) = 0 THEN <<>> ELSE SubSeq(pal, 1, Len(pal) - NumNones(pal))
    IN [n \in 1..Len(kept) |-> IF kept[n] = NoneColor THEN FillerId ELSE kept[n]]

\* palette = Texel4x4.convert_to_palette(cmap_arr)
ConvertToPalette ==
    /\ cmap_pc = "place"
    /\ Len(texels) = n_texels
    /\ \E o \in ConvertFrom({<<cmap_arr, <<>> >>}, 0) :
        /\ cmap_arr' = o[1]
        /\ shared_palette' = CutPalette(o[2])
    /\ cmap_pc' = "converted"
    /\ UNCHANGED <<n_texels, texels>>

\* How texel.get_bytestrs(palette) ends for a placed block: self.index + 4
\* raises TypeError on an index of None, zip(*self.palette[0:2]) on a None
\* entry, and palette.index(c) raises ValueError on a colour that is not among
\* the entries get_bytestrs leaves as they are.
BytestrsOutcome(t, pal) ==
    LET entry(j) == IF t.index + j < Len(pal) THEN pal[t.index + j + 1] ELSE NoneColor
        kept == IF t.ip THEN 2 ELSE IF t.tr THEN 3 ELSE 4
    IN IF t.index = NoIndex THEN "TypeError"
       ELSE IF t.ip /\ NoneColor \in {entry(0), entry(1)} THEN "TypeError"
       ELSE IF \A c \in t.cols : \E j \in 0..(kept - 1) : entry(j) = c THEN "ok"
       ELSE "ValueError"

\* for texel in texels: texel.get_bytestrs(palette).  The texels are taken in
\* image order, so the first one to raise can be any of those that raise.
EmitBytestrs ==
    /\ cmap_pc = "converted"
    /\ LET raised == {BytestrsOutcome(texels[j], shared_palette) : j \in 1..Len(texels)} \ {"ok"}
       IN IF raised = {} THEN cmap_pc' = "emitted" ELSE cmap_pc' \in raised
    /\ UNCHANGED <<n_texels, cmap_arr, texels, shared_palette>>

----------------------------------------------------------------------------
(* Face.can_connect_to, Geometry.__init__ and Geometry.strip.  Faces are   *)
(* indexed from 0 as in the source; two vertices are the same number when  *)
(* Vertex.__eq__ holds.                                                    *)

\* The most triangles and the most quads of a mesh of the model, and the
\* number of distinct vertices.
MaxTris == 3
MaxQuads == 2
MaxVerts == 5

NoFace == -1

\* self.faces[i].vertices
FaceAt(fs, i) == fs[i + 1]

\* can_connect_to once shared[0] and shared[1] are known.
CanConnectWith(f, g, s0, s1) ==
    LET d0 == (IndexOf(f, s0) - IndexOf(f, s1) + Len(f)) % Len(f)
        d1 == (IndexOf(g, s0) - IndexOf(g, s1) + Len(g)) % Len(g)
    IN (Len(f) = 3 \/ (d0 # 2 /\ d1 # 2)) /\ d0 # d1

\* What fs[i].can_connect_to(fs[j]) can return: shared is the list of a set,
\* so its first two elements are any two of the shared vertices.
CanConnectOutcomes(fs, i, j) ==
    LET f == FaceAt(fs, i)
        g == FaceAt(fs, j)
        shared == Range(f) \cap Range(g)
    IN IF i = j \/ Len(f) # Len(g) \/ Card(shared) < 2 THEN {FALSE}
       ELSE {CanConnectWith(f, g, pr[1], pr[2]) :
                pr \in {x \in shared \X shared : x[1] # x[2]}}

FaceIndexes(fs) == 0..(Len(fs) - 1)

\* The sets face_graph[i] can be: the faces can_connect_to accepts whatever
\* the order of shared, and any of those it accepts for some order only.
NeighbourSets(fs, i) ==
    LET sure == {j \in FaceIndexes(fs) : CanConnectOutcomes(fs, i, j) = {TRUE}}
        maybe == {j \in FaceIndexes(fs) : CanConnectOutcomes(fs, i, j) = {TRUE, FALSE}}
    IN {sure \cup some : some \in SUBSET maybe}

\* The face graphs Geometry.__init__ can build, face by face.
RECURSIVE FaceGraphsUpTo(_, _)
FaceGraphsUpTo(fs, n) ==
    IF n = 0 THEN {<<>>}
    ELSE {Append(g, nb) : g \in FaceGraphsUpTo(fs, n - 1), nb \in NeighbourSets(fs, n - 1)}

FaceGraphs(fs) ==
    {[i \in FaceIndexes(fs) |-> g[i + 1]] : g \in FaceGraphsUpTo(fs, Len(fs))}

\* A set of face indexes as the interpreter keeps it: a table of mask + 1
\* slots, each empty, a dummy left by a removal, or an index; fill counts
\* the indexes and the dummies.  An index is its own hash, and iteration runs
\* through the slots from 0 up.
EmptySlot == -1
DummySlot == -2

ActiveSlots(t) == {p \in DOMAIN t.slots : t.slots[p] >= 0}
Used(t) == Card(ActiveSlots(t))
Elements(t) == {t.slots[p] : p \in ActiveSlots(t)}

\* set()
EmptyTable == [mask |-> 7, fill |-> 0, slots |-> [p \in 0..7 |-> EmptySlot]]

\* The slot an index goes to: from slot (hash & mask) up to 9 slots further
\* when they lie inside the table, then from slot (5 i + 1 + perturb) & mask
\* with perturb shifted right by 5 bits.
RECURSIVE ProbeSlot(_, _, _, _)
ProbeSlot(tab, mask, i, perturb) ==
    LET probes == IF i + 9 <= mask THEN 9 ELSE 0
        free == {p \in i..(i + probes) : tab[p] = EmptySlot}
    IN IF free # {} THEN Min(free)
       ELSE ProbeSlot(tab, mask, (i * 5 + 1 + (perturb \div 32)) % (mask + 1),
                      perturb \div 32)

InsertClean(tab, mask, v) ==
    [tab EXCEPT ![ProbeSlot(tab, mask, v % (mask + 1), v)] = v]

\* The indexes of the slots of old from p on go into the new table in slot
\* order.
RECURSIVE InsertFrom(_, _, _, _)
InsertFrom(tab, mask, old, p) ==
    IF p \notin DOMAIN old THEN tab
    ELSE IF old[p] < 0 THEN InsertFrom(tab, mask, old, p + 1)
    ELSE Once(InsertClean(tab, mask, old[p]),
              LAMBDA filled : InsertFrom(filled, mask, old, p + 1))

\* The least power of two above minused, 8 at least.
RECURSIVE NewSize(_, _)
NewSize(size, minused) == IF size <= minused THEN NewSize(2 * size, minused) ELSE size

TableResize(t, minused) ==
    LET size == NewSize(8, minused)
    IN [mask |-> size - 1, fill |-> Used(t),
        slots |-> InsertFrom([p \in 0..(size - 1) |-> EmptySlot], size - 1, t.slots, 0)]

\* Adding an index that is not in the set; the table grows once three
\* fifths of it are filled.
SetAdd(t, v) ==
    Once([t EXCEPT !.slots = InsertClean(t.slots, t.mask, v), !.fill = @ + 1],
         LAMBDA added : IF added.fill * 5 < added.mask * 3 THEN added
                        ELSE TableResize(added, 4 * Used(added)))

\* The set filled with the indexes of S below n in increasing order:
\* set(range(n)) and {j for j, other in enumerate(self.faces) if ...}.
RECURSIVE BuildSet(_, _)
BuildSet(S, n) ==
    IF n = 0 THEN EmptyTable
    ELSE IF n - 1 \notin S THEN BuildSet(S, n - 1)
    ELSE Once(BuildSet(S, n - 1), LAMBDA t : SetAdd(t, n - 1))

\* t -= rem: the removed indexes leave dummies, and the table is rebuilt
\* when more than a quarter of the mask are dummies.
DifferenceUpdate(t, rem) ==
    Once([mask |-> t.mask, fill |-> t.fill,
          slots |-> [p \in DOMAIN t.slots |->
                        IF t.slots[p] \in rem THEN DummySlot ELSE t.slots[p]]],
         LAMBDA cut : IF cut.fill - Used(cut) <= cut.mask \div 4 THEN cut
                      ELSE TableResize(cut, 4 * Used(cut)))

\* The first index of want that iteration over the set meets.
FirstOf(t, want) ==
    t.slots[Min({p \in ActiveSlots(t) : t.slots[p] \in want})]

\* adjacent_by_edge: the first connected face, in the iteration order of
\* self.face_graph[face_index], that has both vertices of the edge.
AdjacentByEdge(fs, graph, face_index, edge) ==
    LET found == {j \in graph[face_index] :
                    edge[1] \in Range(FaceAt(fs, j)) /\ edge[2] \in Range(FaceAt(fs, j))}
        Indexes(first) ==
            LET other == FaceAt(fs, first)
                i0 == IndexOf(other, edge[1])
                i1 == IndexOf(other, edge[2])
            IN <<first, IF (i0 + 1) % Len(other) = i1 THEN i0 ELSE i1>>
    IN IF found = {} THEN <<NoFace, 0>>
       ELSE Once(FirstOf(BuildSet(graph[face_index], Len(fs)), found), Indexes)

\* vertices[-2:] and vertices[:2]
LastTwo(vs) == <<vs[Len(vs) - 1], vs[Len(vs)]>>
FirstTwo(vs) == <<vs[1], vs[2]>>

\* [other.vertices[(v_index + i) % n] for i in range(2, n)]
FarVertices(other, v_index, n) == [i \in 1..(n - 2) |-> At(other, (v_index + i + 1) % n)]

Reversed(vs) == [i \in 1..Len(vs) |-> vs[Len(vs) + 1 - i]]

\* "Extend forwards": st holds vertices, result_indexes, the faces in strip
\* order, and the (next_index, v_index) last returned by adjacent_by_edge.
RECURSIVE ExtendForwards(_, _, _, _, _)
ExtendForwards(fs, graph, faces_left, n, st) ==
    IF st.next[1] = NoFace \/ st.next[1] \notin faces_left \/ st.next[1] \in st.result_indexes
    THEN st
    ELSE LET vs == st.vertices
                    \o Reversed(FarVertices(FaceAt(fs, st.next[1]), st.next[2], n))
         IN Once([st EXCEPT !.vertices = vs,
                            !.result_indexes = @ \cup {st.next[1]},
                            !.strip_faces = Append(@, st.next[1]),
                            !.next = AdjacentByEdge(fs, graph, st.next[1], LastTwo(vs))],
                 LAMBDA longer : ExtendForwards(fs, graph, faces_left, n, longer))

\* "Extend backwards", counting num_exts and keeping last_index.
RECURSIVE ExtendBackwards(_, _, _, _, _)
ExtendBackwards(fs, graph, faces_left, n, st) ==
    IF st.next[1] = NoFace \/ st.next[1] \notin faces_left \/ st.next[1] \in st.result_indexes
    THEN st
    ELSE LET vs == FarVertices(FaceAt(fs, st.next[1]), st.next[2], n) \o st.vertices
         IN Once([st EXCEPT !.vertices = vs,
                            !.result_indexes = @ \cup {st.next[1]},
                            !.strip_faces = <<st.next[1]>> \o @,
                            !.num_exts = @ + 1,
                            !.last_index = st.next[1],
                            !.next = AdjacentByEdge(fs, graph, st.next[1], FirstTwo(vs))],
                 LAMBDA longer : ExtendBackwards(fs, graph, faces_left, n, longer))

\* extend_strip with the triangle of an odd backward extension left in
\* result_indexes.
ExtendStrip_KeepsDropped(fs, graph, face_index, order, faces_left) ==
    LET face == FaceAt(fs, face_index)
        n == Len(face)
        start == [e \in 1..Len(order) |-> At(face, order[e])]
        Corrected(bwd) ==
            IF bwd.num_exts % 2 # 0 /\ n = 3
            THEN [vertices |-> Tail(bwd.vertices),
                  result_indexes |-> bwd.result_indexes,
                  strip_faces |-> Tail(bwd.strip_faces),
                  dropped |-> bwd.last_index]
            ELSE [vertices |-> bwd.vertices, result_indexes |-> bwd.result_indexes,
                  strip_faces |-> bwd.strip_faces, dropped |-> NoFace]
        Backwards(fwd) ==
            Once([fwd EXCEPT !.next = AdjacentByEdge(fs, graph, face_index,
                                                     FirstTwo(fwd.vertices))],
                 LAMBDA st : Once(ExtendBackwards(fs, graph, faces_left, n, st), Corrected))
    IN Once([vertices |-> start, result_indexes |-> {face_index},
             strip_faces |-> <<face_index>>, num_exts |-> 0, last_index |-> NoFace,
             next |-> AdjacentByEdge(fs, graph, face_index, LastTwo(start))],
            LAMBDA st : Once(ExtendForwards(fs, graph, faces_left, n, st), Backwards))

\* extend_strip: (vertices, result_indexes), with the faces in the order in
\* which the strip runs through them and the triangle the parity correction
\* dropped.
ExtendStrip(fs, graph, face_index, order, faces_left) ==
    LET face == FaceAt(fs, face_index)
        n == Len(face)
        start == [e \in 1..Len(order) |-> At(face, order[e])]
        Corrected(bwd) ==
            IF bwd.num_exts % 2 # 0 /\ n = 3
            THEN [vertices |-> Tail(bwd.vertices),
                  result_indexes |-> bwd.result_indexes \ {bwd.last_index},
                  strip_faces |-> Tail(bwd.strip_faces),
                  dropped |-> bwd.last_index]
            ELSE [vertices |-> bwd.vertices, result_indexes |-> bwd.result_indexes,
                  strip_faces |-> bwd.strip_faces, dropped |-> NoFace]
        Backwards(fwd) ==
            Once([fwd EXCEPT !.next = AdjacentByEdge(fs, graph, face_index,
                                                     FirstTwo(fwd.vertices))],
                 LAMBDA st : Once(ExtendBackwards(fs, graph, faces_left, n, st), Corrected))
    IN Once([vertices |-> start, result_indexes |-> {face_index},
             strip_faces |-> <<face_index>>, num_exts |-> 0, last_index |-> NoFace,
             next |-> AdjacentByEdge(fs, graph, face_index, LastTwo(start))],
            LAMBDA st : Once(ExtendForwards(fs, graph, faces_left, n, st), Backwards))

\* The candidate orderings of a seed face.
Orders(n) ==
    IF n = 4 THEN << <<0, 1, 3, 2>>, <<1, 2, 0, 3>> >>
    ELSE << <<0, 1, 2>>, <<1, 2, 0>>, <<2, 0, 1>> >>

\* sorted(..., key=lambda s: len(s[0]))[-1]: the sort is stable, so the last
\* of the longest candidates.
LongestLast(cands) ==
    cands[Max({k \in 1..Len(cands) :
                \A k2 \in 1..Len(cands) : Len(cands[k2].vertices) <= Len(cands[k].vertices)})]

\* The faces a mesh can get after the faces fs: no vertex twice in a face,
\* and vertices numbered in the order in which the mesh brings them in.
VerticesOf(fs) == UNION {Range(fs[i]) : i \in 1..Len(fs)}

NextFaces(fs, n) ==
    {f \in [1..n -> 1..MaxVerts] :
        /\ \A i, j \in 1..n : f[i] = f[j] => i = j
        /\ \A i \in 1..n :
              f[i] <= 1 + Card(VerticesOf(fs) \cup {f[j] : j \in 1..(i - 1)})}

RECURSIVE Meshes(_, _)
Meshes(n, count) ==
    IF count = 0 THEN {<<>>}
    ELSE UNION {{Append(fs, f) : f \in NextFaces(fs, n)} : fs \in Meshes(n, count - 1)}

\* The most faces of a mesh that is one run of connected triangles and two
\* triangles connected to nothing.
MaxRunFaces == 17

\* Triangle k of a run over the vertices 1, 2, 3, ..., every second one
\* turned so that consecutive triangles can connect.
RunTriangle(k) == IF k % 2 = 0 THEN <<k + 1, k + 2, k + 3>> ELSE <<k + 2, k + 1, k + 3>>

\* The mesh of total faces whose faces at the indexes lone stand alone and
\* whose other faces are the triangles of the run, in order.
RunMesh(total, lone) ==
    [n \in 1..total |->
        IF n - 1 \in lone
        THEN <<total + 3 * n, total + 3 * n + 1, total + 3 * n + 2>>
        ELSE RunTriangle(Card({j \in 0..(n - 2) : j \notin lone}))]

RunMeshes ==
    {RunMesh(MaxRunFaces, lone) :
        lone \in {l \in SUBSET (0..(MaxRunFaces - 1)) : Card(l) = 2}}

IdleStrip ==
    /\ geo_faces = <<>> /\ face_graph = <<>> /\ unstripped = {}
    /\ unstripped_table = EmptyTable
    /\ tri_strips = <<>> /\ quad_strips = <<>> /\ tris = <<>> /\ quads = <<>>
    /\ strip_pc = "idle" /\ iterations = <<>>

\* Geometry(vertices, faces) is entered with faces that are all triangles or
\* all quads.
InitStripVars ==
    /\ geo_faces \in UNION ({Meshes(3, count) : count \in 1..MaxTris}
                              \cup {Meshes(4, count) : count \in 1..MaxQuads})
    /\ face_graph = <<>> /\ unstripped = {}
    /\ unstripped_table = EmptyTable
    /\ tri_strips = <<>> /\ quad_strips = <<>> /\ tris = <<>> /\ quads = <<>>
    /\ strip_pc = "graph" /\ iterations = <<>>

\* Geometry(vertices, faces) is entered with a run of triangles and two lone
\* ones.
InitRunVars ==
    /\ geo_faces \in RunMeshes
    /\ face_graph = <<>> /\ unstripped = {}
    /\ unstripped_table = EmptyTable
    /\ tri_strips = <<>> /\ quad_strips = <<>> /\ tris = <<>> /\ quads = <<>>
    /\ strip_pc = "graph" /\ iterations = <<>>

\* Geometry.__init__ followed by the entry of strip().
BuildGraph ==
    /\ strip_pc = "graph"
    /\ face_graph' \in FaceGraphs(geo_faces)
    /\ unstripped' = FaceIndexes(geo_faces)
    /\ unstripped_table' = BuildSet(FaceIndexes(geo_faces), Len(geo_faces))
    /\ strip_pc' = "strip"
    /\ UNCHANGED <<geo_faces, tri_strips, quad_strips, tris, quads, iterations>>

\* StripIteration with the seed face left in unstripped.
StripIteration_KeepsSeed ==
    /\ strip_pc = "strip"
    /\ unstripped # {}
    /\ \E i \in {FirstOf(unstripped_table, unstripped)} :
        LET n == Len(FaceAt(geo_faces, i))
            orders == Orders(n)
        IN \E best \in {LongestLast([k \in 1..Len(orders) |->
                        ExtendStrip(geo_faces, face_graph, i, orders[k], unstripped)])} :
            LET strip == best.vertices
            IN /\ unstripped' = unstripped \ (best.result_indexes \ {i})
               /\ unstripped_table' = DifferenceUpdate(unstripped_table, (best.result_indexes \ {i}))
               /\ iterations' = Append(iterations, [seed |-> i, strip |-> strip,
                                                    face_indexes |-> best.result_indexes,
                                                    strip_faces |-> best.strip_faces,
                                                    dropped |-> best.dropped])
               /\ IF Card(best.result_indexes) > 1
                  THEN /\ quad_strips' = IF n = 4 THEN Append(quad_strips, strip)
                                         ELSE quad_strips
                       /\ tri_strips' = IF n = 4 THEN tri_strips ELSE Append(tri_strips, strip)
                       /\ UNCHANGED <<tris, quads>>
                  ELSE /\ quads' = IF n = 4
                                   THEN quads \o <<strip[1], strip[2], strip[4], strip[3]>>
                                   ELSE quads
                       /\ tris' = IF n = 4 THEN tris ELSE tris \o strip
                       /\ UNCHANGED <<tri_strips, quad_strips>>
    /\ UNCHANGED <<geo_faces, face_graph, strip_pc>>

\* One iteration of "while unstripped".  next(iter(unstripped)) is the
\* index in the first occupied slot of the set's table.
StripIteration ==
    /\ strip_pc = "strip"
    /\ unstripped # {}
    /\ \E i \in {FirstOf(unstripped_table, unstripped)} :
        LET n == Len(FaceAt(geo_faces, i))
            orders == Orders(n)
        IN \E best \in {LongestLast([k \in 1..Len(orders) |->
                        ExtendStrip(geo_faces, face_graph, i, orders[k], unstripped)])} :
            LET strip == best.vertices
            IN /\ unstripped' = unstripped \ best.result_indexes
               /\ unstripped_table' = DifferenceUpdate(unstripped_table, best.result_indexes)
               /\ iterations' = Append(iterations, [seed |-> i, strip |-> strip,
                                                    face_indexes |-> best.result_indexes,
                                                    strip_faces |-> best.strip_faces,
                                                    dropped |-> best.dropped])
               /\ IF Card(best.result_indexes) > 1
                  THEN /\ quad_strips' = IF n = 4 THEN Append(quad_strips, strip)
                                         ELSE quad_strips
                       /\ tri_strips' = IF n = 4 THEN tri_strips ELSE Append(tri_strips, strip)
                       /\ UNCHANGED <<tris, quads>>
                  ELSE /\ quads' = IF n = 4
                                   THEN quads \o <<strip[1], strip[2], strip[4], strip[3]>>
                                   ELSE quads
                       /\ tris' = IF n = 4 THEN tris ELSE tris \o strip
                       /\ UNCHANGED <<tri_strips, quad_strips>>
    /\ UNCHANGED <<geo_faces, face_graph, strip_pc>>

\* return (tri_strips, quad_strips, tris, quads)
StripReturn ==
    /\ strip_pc = "strip"
    /\ unstripped = {}
    /\ strip_pc' = "done"
    /\ UNCHANGED <<geo_faces, face_graph, unstripped, unstripped_table, tri_strips,
                   quad_strips, tris, quads, iterations>>

----------------------------------------------------------------------------
(* Texture.from_bpy_texture *)

\* The largest image dimension of the model.
MaxDim == 2049

NoSize == -1

\* int.bit_length()
RECURSIVE BitLength(_)
BitLength(s) == IF s = 0 THEN 0 ELSE 1 + BitLength(s \div 2)

\* The test of line 504 with 1024 itself rejected.
DimensionRejected_Below1024(s) ==
    \/ IF BitLength(s) = 0 THEN TRUE ELSE s # 2 ^ (BitLength(s) - 1)
    \/ s < 8
    \/ s >= 1024

\* s != 2 ** (s.bit_length() - 1) or s < 8 or s > 1024.  For s = 0 the power
\* is 2 ** -1 = 0.5, which no integer equals.
DimensionRejected(s) ==
    \/ IF BitLength(s) = 0 THEN TRUE ELSE s # 2 ^ (BitLength(s) - 1)
    \/ s < 8
    \/ s > 1024

\* The dimensions the model hands in: every power of two up to MaxDim with
\* its two neighbours, and some sizes between powers.
DimChoices ==
    {d \in 0..MaxDim : \/ \E e \in 0..BitLength(MaxDim) : d \in {2 ^ e - 1, 2 ^ e, 2 ^ e + 1}
                       \/ d \in {12, 24, 1000}}

IdleBpy ==
    /\ image_size = <<>> /\ tex_width = NoSize /\ tex_height = NoSize
    /\ bytestr_calls = 0 /\ bpy_pc = "idle"

InitBpyVars ==
    /\ image_size \in DimChoices \X DimChoices
    /\ tex_width = NoSize /\ tex_height = NoSize
    /\ bytestr_calls = 0 /\ bpy_pc = "call"

\* from_bpy_texture(texture).  What calc_bytestr does to the texture is the
\* subject of SpecType, SpecTexel and SpecCmap; here the call is counted.
FromBpyTexture ==
    /\ bpy_pc = "call"
    /\ IF \E k \in 1..Len(image_size) : DimensionRejected(image_size[k])
       THEN /\ bpy_pc' = "dimension_error"
            /\ UNCHANGED <<tex_width, tex_height, bytestr_calls>>
       ELSE /\ tex_width' = At(image_size, 0)
            /\ tex_height' = At(image_size, 1)
            /\ bytestr_calls' = bytestr_calls + 1
            /\ bpy_pc' = "returned"
    /\ UNCHANGED image_size

----------------------------------------------------------------------------
(* import_texture and the texture cache of load_ret.  Texture and palette  *)
(* names are numbers; a decoded Texture object is the number of the        *)
(* from_bytestr call that made it.                                         *)

\* The textures and palettes of a file, and the import_texture calls of a load.
MaxTextures == 2
MaxPalettes == 2
MaxCalls == 4

\* pal_name when palette_id < 0
NoName == 0

\* The name tables of a file: two entries may carry the same name.  Names
\* are numbered in the order in which the table brings them in.
NameTables(n) ==
    {t \in [1..n -> 1..n] : \A i \in 1..n : t[i] <= 1 + Max({0} \cup {t[j] : j \in 1..(i - 1)})}

\* (name, pal_name) of lines 223-224
CacheKey(texture_id, palette_id) ==
    <<At(tex_names, texture_id), IF palette_id >= 0 THEN At(pal_names, palette_id) ELSE NoName>>

\* A cache in which nothing is ever found.
InCache_Never(cache, key) == key \in DOMAIN cache \ {key}

\* (name, pal_name) in tex_cache
InCache(cache, key) == key \in DOMAIN cache

\* tex_cache[(name, pal_name)] = tex
CacheStore(cache, key, tex) ==
    [k \in DOMAIN cache \cup {key} |-> IF k = key THEN tex ELSE cache[k]]

IdleCache ==
    /\ tex_names = <<>> /\ pal_names = <<>> /\ tex_cache = <<>> /\ n_decoded = 0
    /\ decodes = <<>> /\ slots = <<>> /\ n_calls = 0 /\ last_call = <<>> /\ cache_pc = "idle"

\* load_ret before its loop: tex_cache = {}
InitCacheVars ==
    /\ tex_names \in NameTables(MaxTextures)
    /\ pal_names \in NameTables(MaxPalettes)
    /\ tex_cache = <<>> /\ n_decoded = 0
    /\ decodes = <<>> /\ slots = <<>> /\ n_calls = 0 /\ last_call = <<>> /\ cache_pc = "load"

\* One import_texture call of the load: import_materials hands in the ids
\* of a material, all sharing the tex_cache of load_ret.
ImportTexture ==
    /\ cache_pc = "load"
    /\ n_calls < MaxCalls
    /\ \E texture_id \in -1..(MaxTextures - 1), palette_id \in -1..(MaxPalettes - 1) :
          /\ n_calls' = n_calls + 1
          /\ last_call' = <<texture_id, palette_id>>
          /\ IF texture_id < 0
             THEN UNCHANGED <<tex_cache, n_decoded, decodes, slots>>
             ELSE LET key == CacheKey(texture_id, palette_id)
                  IN IF InCache(tex_cache, key)
                     THEN /\ slots' = Append(slots, tex_cache[key])
                          /\ UNCHANGED <<tex_cache, n_decoded, decodes>>
                     ELSE /\ n_decoded' = n_decoded + 1
                          /\ decodes' = Append(decodes, key)
                          /\ tex_cache' = CacheStore(tex_cache, key, n_decoded + 1)
                          /\ slots' = Append(slots, n_decoded + 1)
    /\ UNCHANGED <<tex_names, pal_names, cache_pc>>

\* load_ret leaves its loop: bone.sibling is None.
LoadReturn ==
    /\ cache_pc = "load"
    /\ cache_pc' = "loaded"
    /\ UNCHANGED <<tex_names, pal_names, tex_cache, n_decoded, decodes, slots, n_calls,
                   last_call>>

----------------------------------------------------------------------------
(* BytesWithPtrs.assemble.  A segment is its length and its byte_align;    *)
(* segments and pointers are indexed from 0 as in the source.              *)

\* The most segments and pointers of a BytesWithPtrs, and the longest segment.
MaxSegments == 3
MaxPtrs == 1
MaxSegLen == 3

\* The alignments the segments declare.
ByteAligns == {1, 2, 4, 8}

\* The default alignment of line 557, used after the last segment.
LastAlign == 4

SegmentLists ==
    UNION {[1..n -> [len : 0..MaxSegLen, byte_align : ByteAligns]] : n \in 0..MaxSegments}

\* The pointers of a BytesWithPtrs over the segments segs: one byte at the
\* start of a segment, pointing at or one byte into a segment.
PtrChoices(segs) ==
    {[src |-> a, src_offset |-> 0, dest |-> b, dest_offset |-> d, num_bytes |-> 1] :
        a \in {i \in 0..(Len(segs) - 1) : At(segs, i).len >= 1},
        b \in 0..(Len(segs) - 1),
        d \in 0..1}

PtrLists(segs) == UNION {[1..n -> PtrChoices(segs)] : n \in 0..MaxPtrs}

\* The alignment that pads a segment: its own.
PadAlign_Own(segs, i) == At(segs, i).byte_align

\* byte_align of line 557: that of the segment after segment i
PadAlign(segs, i) == IF i + 1 < Len(segs) THEN At(segs, i + 1).byte_align ELSE LastAlign

\* (byte_align - position - len(bytestr.bytestr)) % byte_align, with
\* Python's % of a negative number
PadLen(byte_align, position, len) ==
    (((byte_align - position - len) % byte_align) + byte_align) % byte_align

IdleAsm ==
    /\ bytestrs = <<>> /\ ptrs = <<>> /\ indexed_ptrs = <<>> /\ placed_bytestrs = <<>>
    /\ asm_position = 0 /\ resolved = <<>> /\ asm_pc = "idle"

InitAsmVars ==
    /\ bytestrs \in SegmentLists
    /\ ptrs \in PtrLists(bytestrs)
    /\ indexed_ptrs = <<>> /\ placed_bytestrs = <<>>
    /\ asm_position = 0 /\ resolved = <<>> /\ asm_pc = "index"

\* indexed_ptrs and the initial placed_bytestrs = [], position = 0
IndexPtrs ==
    /\ asm_pc = "index"
    /\ indexed_ptrs' = ptrs
    /\ placed_bytestrs' = <<>>
    /\ asm_position' = 0
    /\ asm_pc' = IF Len(bytestrs) > 0 THEN "place"
                 ELSE IF Len(ptrs) > 0 THEN "resolve" ELSE "done"
    /\ UNCHANGED <<bytestrs, ptrs, resolved>>

\* One iteration of the placement loop.
PlaceSegment ==
    /\ asm_pc = "place"
    /\ LET i == Len(placed_bytestrs)
           byte_align == PadAlign(bytestrs, i)
           placed == [len |-> At(bytestrs, i).len
                                + PadLen(byte_align, asm_position, At(bytestrs, i).len),
                      position |-> asm_position]
       IN /\ placed_bytestrs' = Append(placed_bytestrs, placed)
          /\ asm_position' = asm_position + placed.len
          /\ asm_pc' = IF i + 1 < Len(bytestrs) THEN "place"
                       ELSE IF Len(indexed_ptrs) > 0 THEN "resolve" ELSE "done"
    /\ UNCHANGED <<bytestrs, ptrs, indexed_ptrs, resolved>>

\* One iteration of the pointer loop: the value written at the source is
\* the destination's placed position plus dest_offset.
ResolvePtr ==
    /\ asm_pc = "resolve"
    /\ LET ptr == indexed_ptrs[Len(resolved) + 1]
       IN /\ resolved' = Append(resolved,
                    [value |-> At(placed_bytestrs, ptr.dest).position + ptr.dest_offset,
                     n_placed |-> Len(placed_bytestrs)])
          /\ asm_pc' = IF Len(resolved) + 1 < Len(indexed_ptrs) THEN "resolve" ELSE "done"
    /\ UNCHANGED <<bytestrs, ptrs, indexed_ptrs, placed_bytestrs, asm_position>>

----------------------------------------------------------------------------
(* Texture.reduce_colors(colors, new_num), for any colour list and target *)

\* The pixels of a colour list and the largest target of the model.
ReducePixels == 4
MaxNewNum == 3

\* The colours of the lists: two fully transparent ones, an almost
\* transparent one next to them, and opaque ones at different distances.
ReduceColors ==
    {<<0, 0, 0, 0>>, <<8, 0, 0, 0>>, <<1, 0, 0, 1>>, <<0, 0, 0, 31>>, <<3, 0, 0, 31>>,
     <<31, 31, 31, 31>>}

IdleReduce ==
    /\ rc_colors = <<>> /\ rc_new_num = 0 /\ rc_new_colors = <<>> /\ rc_reduced = {}
    /\ rc_merges = <<>> /\ rc_pc = "idle"

\* reduced = set(colors), new_colors = colors[:]
InitReduceVars ==
    /\ rc_colors \in [1..ReducePixels -> ReduceColors]
    /\ rc_new_num \in 1..MaxNewNum
    /\ rc_new_colors = rc_colors
    /\ rc_reduced = Range(rc_colors)
    /\ rc_merges = <<>>
    /\ rc_pc = "loop"

\* One iteration of "while len(reduced) > new_num".
ReduceStep ==
    /\ rc_pc = "loop"
    /\ Cardinality(rc_reduced) > rc_new_num
    /\ \E pair \in MergePairs(rc_reduced) :
        LET new_color == KeptColor(rc_colors, pair)
        IN /\ rc_reduced' = (rc_reduced \ {pair[1], pair[2]}) \cup {new_color}
           /\ rc_new_colors' = [i \in 1..Len(rc_new_colors) |->
                                    IF rc_new_colors[i] \in {pair[1], pair[2]}
                                    THEN new_color ELSE rc_new_colors[i]]
           /\ rc_merges' = Append(rc_merges, [before |-> rc_reduced, pair |-> pair,
                                              new_color |-> new_color])
    /\ UNCHANGED <<rc_colors, rc_new_num, rc_pc>>

\* return new_colors, list(reduced)
ReduceReturn ==
    /\ rc_pc = "loop"
    /\ Cardinality(rc_reduced) <= rc_new_num
    /\ rc_pc' = "returned"
    /\ UNCHANGED <<rc_colors, rc_new_num, rc_new_colors, rc_reduced, rc_merges>>

IdleMore == IdleBpy /\ IdleCache /\ IdleAsm /\ IdleReduce

----------------------------------------------------------------------------
(* The specifications *)

InitType == InitTypeVars /\ IdleDL /\ IdleTexel /\ IdleCmap /\ IdleStrip /\ IdleMore

NextType == CalcType /\ UNCHANGED <<dlVars, texelVars, cmapVars, stripVars, moreVars>>

SpecType == InitType /\ [][NextType]_vars

InitDL == InitDLVars /\ IdleType /\ IdleTexel /\ IdleCmap /\ IdleStrip /\ IdleMore

NextDL ==
    /\ \/ FetchWord
       \/ BeginVertexList
       \/ MatrixRestore
       \/ SetAttribute
       \/ ReadVertex
       \/ SkipOperands
       \/ UnknownCommand
       \/ ReturnLists
    /\ UNCHANGED <<typeVars, texelVars, cmapVars, stripVars, moreVars>>

SpecDL == InitDL /\ [][NextDL]_vars

InitTexel == InitTexelVars /\ IdleType /\ IdleDL /\ IdleCmap /\ IdleStrip /\ IdleMore

NextTexel ==
    /\ \/ ReduceMerge
       \/ TexelBuild
       \/ TexelEncode
    /\ UNCHANGED <<typeVars, dlVars, cmapVars, stripVars, moreVars>>

SpecTexel == InitTexel /\ [][NextTexel]_vars

InitCmap == InitCmapVars /\ IdleType /\ IdleDL /\ IdleTexel /\ IdleStrip /\ IdleMore

NextCmap ==
    /\ \/ AddToColorMap
       \/ ConvertToPalette
       \/ EmitBytestrs
    /\ UNCHANGED <<typeVars, dlVars, texelVars, stripVars, moreVars>>

SpecCmap == InitCmap /\ [][NextCmap]_vars

\* The allocator on the colour maps of every length: the same steps from the
\* colour map the caller hands over.
InitAlloc == InitAllocVars /\ IdleType /\ IdleDL /\ IdleTexel /\ IdleStrip /\ IdleMore

SpecAlloc == InitAlloc /\ [][NextCmap]_vars

InitStrip == InitStripVars /\ IdleType /\ IdleDL /\ IdleTexel /\ IdleCmap /\ IdleMore

NextStrip ==
    /\ \/ BuildGraph
       \/ StripIteration
       \/ StripReturn
    /\ UNCHANGED <<typeVars, dlVars, texelVars, cmapVars, moreVars>>

SpecStrip == InitStrip /\ [][NextStrip]_vars

\* strip() on the meshes that are a run of triangles and two lone ones.
InitRun == InitRunVars /\ IdleType /\ IdleDL /\ IdleTexel /\ IdleCmap /\ IdleMore

SpecRun == InitRun /\ [][NextStrip]_vars

\* strip() is a sequential call: while a step is possible the next one is
\* taken.  This is weak fairness of NextStrip, WF_vars(NextStrip), written
\* out with its enabling condition: a step is possible exactly while
\* strip_pc is not "done" (BuildGraph when "graph"; StripIteration or
\* StripReturn when "strip").
StripFairness == []<>(strip_pc = "done") \/ []<><<NextStrip>>_vars

SpecStripLive == SpecStrip /\ StripFairness

InitBpy ==
    /\ InitBpyVars /\ IdleCache /\ IdleAsm /\ IdleReduce
    /\ IdleType /\ IdleDL /\ IdleTexel /\ IdleCmap /\ IdleStrip

NextBpy ==
    /\ FromBpyTexture
    /\ UNCHANGED <<typeVars, dlVars, texelVars, cmapVars, stripVars, cacheVars, asmVars,
                   reduceVars>>

SpecBpy == InitBpy /\ [][NextBpy]_vars

InitCache ==
    /\ InitCacheVars /\ IdleBpy /\ IdleAsm /\ IdleReduce
    /\ IdleType /\ IdleDL /\ IdleTexel /\ IdleCmap /\ IdleStrip

NextCache ==
    /\ \/ ImportTexture
       \/ LoadReturn
    /\ UNCHANGED <<typeVars, dlVars, texelVars, cmapVars, stripVars, bpyVars, asmVars,
                   reduceVars>>

SpecCache == InitCache /\ [][NextCache]_vars

InitAsm ==
    /\ InitAsmVars /\ IdleBpy /\ IdleCache /\ IdleReduce
    /\ IdleType /\ IdleDL /\ IdleTexel /\ IdleCmap /\ IdleStrip

NextAsm ==
    /\ \/ IndexPtrs
       \/ PlaceSegment
       \/ ResolvePtr
    /\ UNCHANGED <<typeVars, dlVars, texelVars, cmapVars, stripVars, bpyVars, cacheVars,
                   reduceVars>>

SpecAsm == InitAsm /\ [][NextAsm]_vars

InitReduce ==
    /\ InitReduceVars /\ IdleBpy /\ IdleCache /\ IdleAsm
    /\ IdleType /\ IdleDL /\ IdleTexel /\ IdleCmap /\ IdleStrip

NextReduce ==
    /\ \/ ReduceStep
       \/ ReduceReturn
    /\ UNCHANGED <<typeVars, dlVars, texelVars, cmapVars, stripVars, bpyVars, cacheVars,
                   asmVars>>

SpecReduce == InitReduce /\ [][NextReduce]_vars

----------------------------------------------------------------------------
(* Claims about Geometry.strip *)

\* The face indexes committed by the iterations of the main loop so far.
Committed == UNION {iterations[k].face_indexes : k \in 1..Len(iterations)}

\* The number of primitives in the four outputs.
EmittedCount ==
    Len(tri_strips) + Len(quad_strips) + (Len(tris) \div 3) + (Len(quads) \div 4)

\* C1: strip() covers every face index exactly once: the sets committed by
\* successive iterations are pairwise disjoint and each holds its seed, they
\* and the faces still unstripped make up all the face indexes, nothing is
\* left when strip() returns, every iteration emits one primitive, and a
\* triangle dropped by the backward parity correction is not committed with
\* that strip: it is still unstripped or a later iteration has committed it.
C1_CoveredOnce ==
    strip_pc \in {"strip", "done"} =>
        /\ \A k, k2 \in 1..Len(iterations) :
              k # k2 => iterations[k].face_indexes \cap iterations[k2].face_indexes = {}
        /\ \A k \in 1..Len(iterations) : iterations[k].seed \in iterations[k].face_indexes
        /\ Committed \cup unstripped = FaceIndexes(geo_faces)
        /\ Committed \cap unstripped = {}
        /\ strip_pc = "done" => Committed = FaceIndexes(geo_faces)
        /\ EmittedCount = Len(iterations)
        /\ \A k \in 1..Len(iterations) :
              iterations[k].dropped # NoFace =>
                  /\ iterations[k].dropped \notin iterations[k].face_indexes
                  /\ \/ iterations[k].dropped \in unstripped
                     \/ \E k2 \in (k + 1)..Len(iterations) :
                            iterations[k].dropped \in iterations[k2].face_indexes

\* strip() has returned after committing a triangle strip of two faces from
\* which the parity correction dropped a third, emitted by a later iteration.
C1_Witness ==
    /\ strip_pc = "done"
    /\ \E k \in 1..Len(iterations) :
          /\ iterations[k].dropped # NoFace
          /\ Card(iterations[k].face_indexes) > 1
          /\ \E k2 \in (k + 1)..Len(iterations) :
                iterations[k].dropped \in iterations[k2].face_indexes

\* The faces the parser builds from the vertex sequence vs under primitive
\* type pt: read_vertex's face addition after every vertex.
RECURSIVE DecodeList(_, _, _)
DecodeList(pt, vs, k) ==
    IF k > Len(vs) THEN <<>>
    ELSE FaceAddition(pt, SubSeq(vs, 1, k)) \o DecodeList(pt, vs, k + 1)

\* The decoded faces stand one for one for the faces idxs, with equal
\* vertex sets.
SameFaces(decoded, idxs) ==
    /\ Len(decoded) = Card(idxs)
    /\ \E b \in [1..Len(decoded) -> idxs] :
          /\ \A j, j2 \in 1..Len(decoded) : b[j] = b[j2] => j = j2
          /\ \A j \in 1..Len(decoded) : Range(decoded[j]) = Range(FaceAt(geo_faces, b[j]))

\* The faces committed alone, one per iteration.
Singles == UNION {iterations[k].face_indexes :
                    k \in {k2 \in 1..Len(iterations) : Card(iterations[k2].face_indexes) = 1}}

\* C2: strip and unstrip are inverse: every strip that strip() returns
\* decodes, under the parser's rule for its kind, into as many faces as were
\* committed for it, each with the vertex set of one of those faces, and the
\* standalone tris and quads decode into the faces committed alone.
C2_AsClaimed ==
    strip_pc = "done" =>
        /\ \A k \in 1..Len(iterations) :
              Card(iterations[k].face_indexes) > 1 =>
                  SameFaces(DecodeList(Len(geo_faces[1]) - 1, iterations[k].strip, 1),
                            iterations[k].face_indexes)
        /\ SameFaces(DecodeList(0, tris, 1) \o DecodeList(1, quads, 1), Singles)

\* The faces still unstripped when iteration k of the main loop began.
FacesLeftAt(k) ==
    FaceIndexes(geo_faces) \ UNION {iterations[j].face_indexes : j \in 1..(k - 1)}

\* What extend_strip returned for every candidate ordering of iteration k.
CandidatesAt(k) ==
    LET orders == Orders(Len(FaceAt(geo_faces, iterations[k].seed)))
    IN [o \in 1..Len(orders) |->
            ExtendStrip(geo_faces, face_graph, iterations[k].seed, orders[o], FacesLeftAt(k))]

\* Every candidate of every iteration went through each of its faces once,
\* adding n - 2 vertices per face after the seed's n; every iteration
\* committed its seed, which the parity correction did not drop; there are
\* no more iterations than faces, and each left fewer faces unstripped.
C14_Progress ==
    strip_pc \in {"strip", "done"} =>
        /\ \A k \in 1..Len(iterations) :
              /\ iterations[k].seed \in iterations[k].face_indexes
              /\ iterations[k].dropped # iterations[k].seed
              /\ FacesLeftAt(k + 1) # FacesLeftAt(k)
              /\ \A o \in 1..Len(CandidatesAt(k)) :
                    LET c == CandidatesAt(k)[o]
                        n == Len(FaceAt(geo_faces, iterations[k].seed))
                    IN /\ \A a, b \in 1..Len(c.strip_faces) :
                             c.strip_faces[a] = c.strip_faces[b] => a = b
                       /\ Range(c.strip_faces) = c.result_indexes
                       /\ c.result_indexes \subseteq FacesLeftAt(k)
                       /\ Len(c.vertices) = n + (n - 2) * (Len(c.strip_faces) - 1)
        /\ Len(iterations) <= Len(geo_faces)
        /\ Card(unstripped) <= Len(geo_faces) - Len(iterations)

\* C14: strip() terminates on every mesh, rings of faces included: every
\* extension loop adds a face at most once per candidate, every iteration
\* of the main loop takes at least its seed out of unstripped, and the call
\* returns.
C14_Terminates == []C14_Progress /\ <>(strip_pc = "done")

\* strip() has returned on a ring of three triangles, each connected to the
\* other two, where the extension from the first seed went round the ring.
C14_Witness ==
    /\ strip_pc = "done"
    /\ Len(geo_faces) = 3
    /\ \A i \in FaceIndexes(geo_faces) : face_graph[i] = FaceIndexes(geo_faces) \ {i}
    /\ Card(iterations[1].face_indexes) >= 2

\* The decoded face d has the vertices of face f in the same cyclic order.
SameCyclicOrder(d, f) ==
    /\ Len(d) = Len(f)
    /\ \E r \in 0..(Len(f) - 1) :
          \A i \in 0..(Len(f) - 1) : At(d, i) = At(f, (i + r) % Len(f))

\* The number of faces the strip of iteration k has in front of its seed.
FacesBeforeSeed(k) ==
    Card({a \in 1..Len(iterations[k].strip_faces) :
            \E b \in (a + 1)..Len(iterations[k].strip_faces) :
                iterations[k].strip_faces[b] = iterations[k].seed})

\* C15: strips preserve winding: a returned triangle strip keeps an even
\* number of triangles in front of its seed, and every face decoded from a
\* returned triangle or quad strip has the cyclic vertex order of the
\* original face at that place of the strip.
C15_AsClaimed ==
    strip_pc = "done" =>
        \A k \in 1..Len(iterations) :
            Card(iterations[k].face_indexes) > 1 =>
                LET decoded == DecodeList(Len(geo_faces[1]) - 1, iterations[k].strip, 1)
                IN /\ Len(geo_faces[1]) = 3 => FacesBeforeSeed(k) % 2 = 0
                   /\ Len(decoded) = Len(iterations[k].strip_faces)
                   /\ \A j \in 1..Len(decoded) :
                         SameCyclicOrder(decoded[j],
                                         FaceAt(geo_faces, iterations[k].strip_faces[j]))

\* C21 as claimed: the face graph Geometry builds is symmetric and
\* irreflexive: j is in face_graph[i] exactly when i is in face_graph[j], and
\* i is never in face_graph[i], for faces sharing 2 vertices and for faces
\* sharing 3 or more.
C21_AsClaimed ==
    strip_pc \in {"strip", "done"} =>
        \A i, j \in FaceIndexes(geo_faces) :
            /\ (j \in face_graph[i]) <=> (i \in face_graph[j])
            /\ i \notin face_graph[i]

\* C20 as claimed: every iteration of strip() takes as its seed the lowest
\* face index among the faces not yet consumed, and commits a candidate
\* whose vertex sequence is as long as that of any candidate ordering of the
\* seed, so that the four returned lists are the same on every run.
C20_AsClaimed ==
    \A k \in 1..Len(iterations) :
        /\ iterations[k].seed = Min(FacesLeftAt(k))
        /\ \A o \in 1..Len(CandidatesAt(k)) :
              Len(CandidatesAt(k)[o].vertices) <= Len(iterations[k].strip)

----------------------------------------------------------------------------
(* Claims about Texture.calc_type, stated over the pixels calc_type read *)

PartialAlphaPixels == {i \in 1..Len(rgba5555) : rgba5555[i][4] > 0 /\ rgba5555[i][4] < 31}

\* Distinct RGB colours among the pixels that are not fully transparent.
VisibleRgbCount ==
    Cardinality({<<rgba5555[i][1], rgba5555[i][2], rgba5555[i][3]>> :
                    i \in {k \in 1..Len(rgba5555) : rgba5555[k][4] > 0}})

\* Distinct (colour, alpha) combinations, all fully transparent pixels
\* counting as one combination.
Combination(c) == IF c[4] = 0 THEN <<0, 0, 0, 0>> ELSE c
CombinationCount == Cardinality({Combination(rgba5555[i]) : i \in 1..Len(rgba5555)})

\* C6: an image is classified as an alpha format exactly when some pixel has
\* 5-bit alpha strictly between 0 and 31, whatever the colour count and the
\* Uncompressed flag: A3I5 when more than 8 distinct RGB colours occur among
\* the pixels that are not fully transparent, A5I3 otherwise.
C6_AlphaFormat ==
    type_pc = "typed" =>
        /\ PartialAlphaPixels # {} =>
                tex_type = (IF VisibleRgbCount > 8 THEN A3I5 ELSE A5I3)
        /\ PartialAlphaPixels = {} => tex_type \notin {A3I5, A5I3}

\* A translucent image of exactly 8 colours was classified with the flag set.
C6_Witness ==
    /\ type_pc = "typed"
    /\ PartialAlphaPixels # {}
    /\ VisibleRgbCount = 8
    /\ uncompressed
    /\ tex_type = A5I3

\* C7 as claimed: an image of at most 4 distinct (colour, alpha) combinations
\* is classified COLOR_4.
C7_AsClaimed ==
    (type_pc = "typed" /\ CombinationCount <= 4) => tex_type = COLOR_4

\* C7 as amended: an image of at most 4 distinct (colour, alpha) combinations
\* none of whose pixels has partial alpha is classified COLOR_4.
C7_FourColour ==
    (type_pc = "typed" /\ CombinationCount <= 4 /\ PartialAlphaPixels = {})
        => tex_type = COLOR_4

\* An image of exactly 4 combinations, one of them the transparent one, was
\* classified.
C7_Witness ==
    /\ type_pc = "typed"
    /\ CombinationCount = 4
    /\ PartialAlphaPixels = {}
    /\ \E i \in 1..Len(rgba5555) : rgba5555[i][4] = 0
    /\ tex_type = COLOR_4

\* The format the count alone selects among the uncompressed ones.
FormatByCount(n) ==
    IF n <= 16 THEN COLOR_16 ELSE IF n <= 256 THEN COLOR_256 ELSE COLOR_DIRECT

\* C18 as claimed: for an image with no partial-alpha pixel and more than 4
\* colours (the transparent colour counted once), the block-compressed
\* format is chosen only when the flag is unset and the count is at most 256,
\* and when the flag is set or the count exceeds 256 the format is the one
\* the count selects: 16-colour, 256-colour or direct colour.
C18_AsClaimed ==
    (type_pc = "typed" /\ PartialAlphaPixels = {} /\ CombinationCount > 4)
        => /\ tex_type = COMPRESSED
                => (~uncompressed /\ CombinationCount <= 256)
           /\ (uncompressed \/ CombinationCount > 256)
                => tex_type = FormatByCount(CombinationCount)

----------------------------------------------------------------------------
(* Claims about Texel4x4 *)

\* The block is fully opaque and its pixels use exactly the four distinct
\* colours c0, c1, (5*c0+3*c1)//8 and (3*c0+5*c1)//8.
BlendBlock(c0, c1) ==
    /\ \A i \in 1..Len(colors_in) : colors_in[i][4] # 0
    /\ Range(colors_in) = {c0, c1, Blend53(c0, c1), Blend53(c1, c0)}
    /\ Cardinality(Range(colors_in)) = 4

\* The table a decoder looks the 2-bit indices up in.
DecodeTable ==
    <<palette[1], palette[2], Blend53(palette[1], palette[2]), Blend53(palette[2], palette[1])>>

\* C5: for a fully opaque block of two endpoints c0, c1 and their two 5:3
\* blends (four distinct colours), Texel4x4 sets interp with palette_set =
\* {c0, c1} needing 2 indexes, and get_bytestrs, given the two endpoints at
\* the block's index in either order, emits indices that, looked up in
\* [p0, p1, (5*p0+3*p1)//8, (3*p0+5*p1)//8], give back every pixel colour.
C5_InterpBlock ==
    \A c0, c1 \in Range(colors_in) : BlendBlock(c0, c1) =>
        /\ texel_pc # "reduce" =>
                /\ interp /\ ~transparency
                /\ palette_set = {c0, c1}
                /\ cmap_idxs = 2
        /\ (texel_pc \notin {"reduce", "built"} /\ {palette[1], palette[2]} = {c0, c1}) =>
                /\ texel_pc = "encoded"
                /\ \A i \in 1..Len(colors_in) :
                        /\ indexes[i] \in 0..3
                        /\ At(DecodeTable, indexes[i]) = colors_in[i]

\* A blend block was encoded against a palette that holds its endpoints in
\* the order opposite to the one the block's first pixels suggest, and a blend
\* that is not an exact multiple of 1/8 was rounded down.
C5_Witness ==
    /\ texel_pc = "encoded"
    /\ \E c0, c1 \in Range(colors_in) :
        /\ BlendBlock(c0, c1)
        /\ colors_in[1] = c0
        /\ palette[1] = c1 /\ palette[2] = c0
        /\ indexes[1] = 1
        /\ (c0[1] * 5 + c1[1] * 3) % 8 # 0

----------------------------------------------------------------------------
(* Claims about the palette allocator *)

\* C3: every add_color_map call of the placing loop returns an even index i
\* with i plus the block's index count at most 4N; it never returns None and
\* the colour map is never indexed past its end.
C3_AlwaysPlaced ==
    /\ cmap_pc # "IndexError"
    /\ \A j \in 1..Len(texels) :
        /\ texels[j].index # NoIndex
        /\ texels[j].index % 2 = 0
        /\ texels[j].index >= 0
        /\ texels[j].index + texels[j].k <= 4 * n_texels

\* Both blocks of a 2-block image are placed: the second one shares a colour
\* with the first, finds no room beside it and ends exactly at the end of the
\* colour map.
C3_Witness ==
    /\ cmap_pc = "place"
    /\ n_texels = 2 /\ Len(texels) = 2
    /\ texels[1].index = 0 /\ texels[1].k = 4
    /\ texels[2].index = 4 /\ texels[2].k = 4
    /\ texels[2].cols \cap texels[1].cols # {}

HeldInColorMap(t) ==
    \A c \in t.cols :
        \E n \in t.index..(t.index + t.k - 1) : n \in DOMAIN cmap_arr /\ c \in cmap_arr[n].cols

\* Block t has each of its colours in the palette at a position of its own
\* range.
HeldInPalette(t) ==
    \A c \in t.cols :
        \E n \in t.index..(t.index + t.k - 1) :
            n < Len(shared_palette) /\ At(shared_palette, n) = c

\* C4 as claimed: after every add_color_map call and after convert_to_palette
\* every colour of every placed block is held inside the block's own range,
\* and get_bytestrs finds every colour of the block at emission.
C4_AsClaimed ==
    /\ cmap_pc = "place" => \A j \in 1..Len(texels) : HeldInColorMap(texels[j])
    /\ cmap_pc \in {"converted", "emitted"} =>
            \A j \in 1..Len(texels) : HeldInPalette(texels[j])
    /\ cmap_pc \notin {"ValueError", "TypeError"}

----------------------------------------------------------------------------
(* Claims about import_display_list and read_vertex *)

\* The k-th group of a consecutive vertices of vs.
VertexGroup(vs, a, k) == [j \in 1..a |-> vs[(k - 1) * a + j]]

\* C8: in a vertex list of primitive type 0 (resp. 1) a face is emitted exactly
\* when the number of vertices read in the list becomes a multiple of 3
\* (resp. 4), and it is the last 3 (resp. 4) vertices in input order: at every
\* moment the list of n vertices holds floor(n/3) (resp. floor(n/4)) faces,
\* the k-th being the k-th group of consecutive vertices; and a display list
\* of 3 vertices of type 0 returns the one triangle <<1, 2, 3>>.
C8_SeparateFaces ==
    /\ (list_open /\ p_type \in {0, 1}) =>
            /\ Len(faces) = Len(vertices) \div (p_type + 3)
            /\ \A k \in 1..Len(faces) : faces[k] = VertexGroup(vertices, p_type + 3, k)
    /\ (dl_status = "done" /\ p_type = 0 /\ n_read = 3 /\ Len(vertices) = 3) =>
            dl_result = << <<1, 2, 3>>, << <<1, 2, 3>> >> >>

\* A display list of 3 vertices in one list of type 0 was returned, every
\* read inside the stream.
C8_Witness ==
    /\ dl_status = "done"
    /\ p_type = 0
    /\ ~oob_read
    /\ dl_result = << <<1, 2, 3>>, << <<1, 2, 3>> >> >>

\* C9: once an opcode outside the opcode table has been processed the call
\* has failed and returns nothing, whatever was decoded before; the opcode is
\* never skipped.
C9_UnknownOpcodeFatal ==
    unknown_seen => (dl_status = "error" /\ dl_result = NoResult)

\* An unknown opcode came after a face had been decoded.
C9_Witness ==
    /\ unknown_seen
    /\ dl_status = "error"
    /\ faces # <<>>

\* C10 as claimed: a call in which some read reached beyond the end of the
\* buffer or of the command stream ends in an error and returns nothing.
C10_AsClaimed ==
    (oob_read /\ dl_status # "run") => (dl_status = "error" /\ dl_result = NoResult)

\* The triangle a type-2 list emits at its k-th vertex (k >= 3).
StripTriangle(vs, k) ==
    IF k % 2 = 0 THEN <<vs[k - 1], vs[k - 2], vs[k]>> ELSE <<vs[k - 2], vs[k - 1], vs[k]>>

\* The quad a type-3 list emits at its k-th vertex (k >= 4, k even).
StripQuad(vs, k) == <<vs[k - 3], vs[k - 2], vs[k], vs[k - 1]>>

\* C16: in a vertex list of type 2 the k-th vertex of the list emits a
\* triangle exactly when k >= 3, from the last three vertices in order
\* (-2,-3,-1) for even k and (-3,-2,-1) for odd k; in a list of type 3 the
\* k-th vertex emits a quad exactly when k >= 4 and k is even, from the last
\* four in order (-4,-3,-1,-2); so n vertices give n - 2 triangles or
\* floor((n - 2) / 2) quads.  The count restarts at every begin-vertex-list
\* opcode: the faces of a list are made of its own vertices only, and until
\* the final flush the lists flushed before hold none of them.
C16_StripFaces ==
    list_open =>
        /\ p_type = 2 =>
              /\ Len(faces) = Max({0, Len(vertices) - 2})
              /\ \A k \in 3..Len(vertices) : faces[k - 2] = StripTriangle(vertices, k)
        /\ p_type = 3 =>
              /\ Len(faces) = Max({0, (Len(vertices) - 2) \div 2})
              /\ \A k \in 4..Len(vertices) :
                    k % 2 = 0 => faces[(k - 2) \div 2] = StripQuad(vertices, k)
        /\ p_type \in {2, 3} =>
              /\ \A f \in 1..Len(faces) : Range(faces[f]) \subseteq Range(vertices)
              /\ dl_status # "done" => Range(vertices) \cap Range(accum_vertices) = {}
              /\ \A f \in 1..Len(accum_faces) :
                    Range(accum_faces[f]) \subseteq Range(accum_vertices)

\* A second vertex list, a triangle strip of four vertices, has produced its
\* two triangles after a first list of three vertices was flushed.
C16_Witness ==
    /\ list_open /\ p_type = 2
    /\ accum_vertices = <<1, 2, 3>>
    /\ vertices = <<4, 5, 6, 7>>
    /\ faces = << <<4, 5, 6>>, <<6, 5, 7>> >>

----------------------------------------------------------------------------
(* Claims about Texture.from_bpy_texture *)

IsPowerOfTwo(s) == \E e \in 0..BitLength(MaxDim) : s = 2 ^ e

AcceptableDimension(s) == IsPowerOfTwo(s) /\ 8 <= s /\ s <= 1024

\* C11: from_bpy_texture raises its dimension error exactly when a dimension
\* is not a power of two or is below 8 or above 1024; when it raises, width
\* and height are not set and calc_bytestr was not called; when it does not,
\* width and height are the image's and calc_bytestr was called once.
C11_DimensionGate ==
    bpy_pc \in {"dimension_error", "returned"} =>
        /\ bpy_pc = "dimension_error"
              <=> ~(AcceptableDimension(image_size[1]) /\ AcceptableDimension(image_size[2]))
        /\ bpy_pc = "dimension_error"
              => tex_width = NoSize /\ tex_height = NoSize /\ bytestr_calls = 0
        /\ bpy_pc = "returned"
              => tex_width = image_size[1] /\ tex_height = image_size[2] /\ bytestr_calls = 1

\* An 8 x 12 image, both dimensions in range and one not a power of two,
\* was refused.
C11_Witness ==
    bpy_pc = "dimension_error" /\ image_size = <<8, 12>> /\ bytestr_calls = 0

----------------------------------------------------------------------------
(* Claims about import_texture *)

\* Every key was decoded at most once, the cache holds exactly the decoded
\* keys, each with the object of its first and only decode, and the last
\* call put the cached object of its key in the slot.
CacheState ==
    /\ \A i, j \in 1..Len(decodes) : decodes[i] = decodes[j] => i = j
    /\ DOMAIN tex_cache = Range(decodes)
    /\ \A i \in 1..Len(decodes) : tex_cache[decodes[i]] = i
    /\ n_decoded = Len(decodes)
    /\ (last_call # <<>> /\ last_call[1] >= 0) =>
            /\ InCache(tex_cache, CacheKey(last_call[1], last_call[2]))
            /\ slots[Len(slots)] = tex_cache[CacheKey(last_call[1], last_call[2])]

\* A call keeps every cached entry, decodes only on a key that is not in the
\* cache, and with texture_id < 0 changes neither the cache nor the slots.
CacheStep ==
    /\ \A k \in DOMAIN tex_cache : k \in DOMAIN tex_cache' /\ tex_cache'[k] = tex_cache[k]
    /\ n_calls' # n_calls =>
          /\ last_call'[1] < 0 => UNCHANGED <<tex_cache, n_decoded, decodes, slots>>
          /\ (last_call'[1] >= 0 /\ InCache(tex_cache, CacheKey(last_call'[1], last_call'[2])))
                => UNCHANGED <<tex_cache, n_decoded, decodes>>
          /\ n_decoded' # n_decoded =>
                ~InCache(tex_cache, CacheKey(last_call'[1], last_call'[2]))

\* C12: over one load a texture is decoded at most once per (texture name,
\* palette name) key: the first reference decodes and caches it, every later
\* reference gets the cached object without another decode, a cached entry
\* is never replaced or removed, and a call with texture_id < 0 leaves the
\* cache unchanged.
C12_DecodedOnce == []CacheState /\ [][CacheStep]_vars

\* The load ended after two textures that carry the same name were
\* referenced with the same palette and then no texture: one decode, the
\* same object in both slots.
C12_Witness ==
    /\ cache_pc = "loaded"
    /\ tex_names = <<1, 1>>
    /\ n_calls = 3 /\ last_call[1] < 0
    /\ n_decoded = 1
    /\ slots = <<1, 1>>

----------------------------------------------------------------------------
(* Claims about BytesWithPtrs.assemble *)

\* The alignment declared by the segment after segment i (counted from 1),
\* 4 after the last.
FollowingAlign(i) ==
    IF i < Len(bytestrs) THEN bytestrs[i + 1].byte_align ELSE 4

\* The zero bytes appended to placed segment i (counted from 1).
Padding(i) == placed_bytestrs[i].len - bytestrs[i].len

\* C13: segments are placed contiguously in list order, each padded with the
\* fewest zero bytes that bring its end to a multiple of the alignment of
\* the segment after it (4 after the last); every placed position is a
\* multiple of the segment's own byte_align, the total length is a multiple
\* of 4, and every pointer is resolved against the final positions.
C13_PlacedByNextAlign ==
    /\ \A i \in 1..Len(placed_bytestrs) :
          /\ placed_bytestrs[i].position =
                (IF i = 1 THEN 0
                 ELSE placed_bytestrs[i - 1].position + placed_bytestrs[i - 1].len)
          /\ Padding(i) \in 0..(FollowingAlign(i) - 1)
          /\ (placed_bytestrs[i].position + placed_bytestrs[i].len) % FollowingAlign(i) = 0
          /\ placed_bytestrs[i].position % bytestrs[i].byte_align = 0
    /\ asm_pc \in {"resolve", "done"} =>
          /\ Len(placed_bytestrs) = Len(bytestrs)
          /\ asm_position % 4 = 0
          /\ asm_position = (IF Len(placed_bytestrs) = 0 THEN 0
                             ELSE placed_bytestrs[Len(placed_bytestrs)].position
                                    + placed_bytestrs[Len(placed_bytestrs)].len)
    /\ \A k \in 1..Len(resolved) :
          /\ resolved[k].n_placed = Len(bytestrs)
          /\ resolved[k].value =
                At(placed_bytestrs, indexed_ptrs[k].dest).position + indexed_ptrs[k].dest_offset

\* assemble has finished on three segments where the middle one, aligned to
\* 2, got padding for the 8 of the last one, and a pointer to the last
\* segment was resolved.
C13_Witness ==
    /\ asm_pc = "done"
    /\ Len(bytestrs) = 3
    /\ bytestrs[2].byte_align = 2 /\ bytestrs[3].byte_align = 8
    /\ Padding(2) > 2
    /\ Len(resolved) = 1 /\ indexed_ptrs[1].dest = 2
    /\ resolved[1].value > 0

----------------------------------------------------------------------------
(* Claims about Texture.reduce_colors *)

SameClass(a, b) == (a[4] = 0) = (b[4] = 0)

DistinctPairs(S) == {p \in S \X S : p[1] # p[2]}

\* The fully transparent pixels of the list are all one colour.
TransparentNormalised(cs) ==
    \A i, j \in 1..Len(cs) : (cs[i][4] = 0 /\ cs[j][4] = 0) => cs[i] = cs[j]

\* C17: reduce_colors ends with at most new_num distinct colours, one fewer
\* per merge; every merge takes a pair of the same transparency class when
\* reduced has one, of least squared distance among the pairs it chooses
\* from, and replaces both by the member more frequent in the original
\* list; every colour of the output is a colour of the input; and when the
\* transparent pixels of the input are one colour and new_num >= 2, a pixel
\* is transparent in the output exactly when it was in the input.
C17_Reduced ==
    /\ rc_pc = "returned" => Cardinality(rc_reduced) <= rc_new_num
    /\ rc_pc # "idle" =>
          /\ Range(rc_new_colors) = rc_reduced
          /\ rc_reduced \subseteq Range(rc_colors)
          /\ Len(rc_merges) = Cardinality(Range(rc_colors)) - Cardinality(rc_reduced)
    /\ \A m \in 1..Len(rc_merges) :
          LET before == rc_merges[m].before
              pair == rc_merges[m].pair
              same == {p \in DistinctPairs(before) : SameClass(p[1], p[2])}
              pool == IF same # {} THEN same ELSE DistinctPairs(before)
          IN /\ Cardinality(before) > rc_new_num
             /\ pair \in pool
             /\ \A q \in pool : SqDist(pair[1], pair[2]) <= SqDist(q[1], q[2])
             /\ rc_merges[m].new_color \in {pair[1], pair[2]}
             /\ \A c \in {pair[1], pair[2]} :
                   Count(rc_colors, rc_merges[m].new_color) >= Count(rc_colors, c)
    /\ (TransparentNormalised(rc_colors) /\ rc_new_num >= 2) =>
          \A i \in 1..Len(rc_new_colors) : (rc_new_colors[i][4] = 0) = (rc_colors[i][4] = 0)

\* reduce_colors has returned two colours for a list of the transparent
\* colour, the almost transparent one next to it and two opaque ones: the
\* transparent pixel is still the only transparent one.
C17_Witness ==
    /\ rc_pc = "returned"
    /\ rc_new_num = 2
    /\ rc_colors = << <<0, 0, 0, 0>>, <<1, 0, 0, 1>>, <<0, 0, 0, 31>>, <<3, 0, 0, 31>> >>
    /\ Len(rc_merges) = 2
    /\ rc_new_colors[1] = <<0, 0, 0, 0>>

====
